---- MODULE Spec2Model ----
(***************************************************************************)
(* Live-session control, grading and violation tracking of the Quizz       *)
(* test-delivery platform.  One test, one attempt; every handler is split  *)
(* at its awaits (store reads and writes), so that calls of different      *)
(* server processes interleave as they do in the program.                  *)
(***************************************************************************)
EXTENDS Integers, Sequences, FiniteSets, TLC

(* ------------------------------ bounds -------------------------------- *)
\* most questions the test ever holds
MaxQ == 3
\* last value of the wall clock
MaxTime == 1
\* most recordViolation calls that are let begin for the attempt
MaxViolationCalls == 6
\* most elements of an array answer
MaxArray == 2

(* ---------------------------- vocabulary ------------------------------ *)
Admins == {"a1", "a2"}
\* the server process whose control calls SpecCtl follows
OneAdmin == {"a1"}
Sockets == {"s1", "s2"}
\* the test the session calls are about, and another test
ThisTest == "T"
TestIds == {"T", "U"}
Statuses == {"waiting", "active", "paused", "finished"}
ValidActions == {"START", "NEXT", "PREV", "GOTO", "PAUSE", "RESUME", "FINISH"}
\* "REWIND" stands for every action string the switch does not know
Actions == ValidActions \cup {"REWIND"}
\* startedAt = undefined
NoDate == -1
\* the request's index: a number, or missing / not a number
NoIndex == [num |-> FALSE, val |-> 0]
Indexes == {NoIndex} \cup {[num |-> TRUE, val |-> v] : v \in -1 .. MaxQ}
\* index is only read by GOTO: the other actions are sent without it
Requests ==
    {[action |-> a, index |-> NoIndex] : a \in Actions \ {"GOTO"}}
        \cup {[action |-> "GOTO", index |-> i] : i \in Indexes}

VARIABLES
    testExists,   \* Test.findById(testId) finds the test
    nQuestions,   \* Question.countDocuments({testId})
    session,      \* the TestSession document of the test
    otherSession, \* the TestSession document of the other test
    now,          \* the wall clock read by new Date()
    ctl,          \* per server process: its control call
    crt,          \* the session-create call
    channel,      \* messages published on 'test-control', not yet received
    room,         \* per test: the sockets joined to room test:<testId>
    client,       \* per socket: the last state-change it received
    page,         \* per socket: the test player page that opened it
    sinceDrop,    \* messages re-emitted since the gateway last dropped one; -1: none dropped
    roomCount,    \* per socket: the last room-count it received
    storeUp,      \* the Redis server is reachable
    redisStatus,  \* redis.status of the shared client
    redisAvailable, \* the module's redisAvailable flag
    questions,    \* the Question documents of the test
    keyCache,     \* the value cached under answer-key:<testId>
    attempt,      \* the Attempt document
    otherAttempt, \* another Attempt document of the same test
    grd,          \* per worker / server process: its gradeAttempt call
    gradeWrites,  \* attempt.save() calls made by gradeAttempt: 0, 1, 2 = more
    violations,   \* the value stored under violations:<attemptId>
    vio,          \* per server process: its recordViolation call
    recorded,     \* recordViolation calls of the attempt that have returned
    cmp,          \* a compareAnswers call: its arguments and its result
    job,          \* per upload: its job of pdf-parse-queue
    post,         \* per upload: its POST parse-pdf request
    poll          \* per upload: the answer to the last GET with its jobId

ctlVars == <<testExists, otherSession, nQuestions, session, ctl, crt, channel, room, client, page,
             sinceDrop, roomCount>>
redisVars == <<storeUp, redisStatus, redisAvailable>>
gradeVars == <<questions, keyCache, attempt, otherAttempt, grd, gradeWrites>>
violVars == <<violations, vio, recorded>>
parseVars == <<job, post, poll>>
vars == <<now, ctlVars, redisVars, gradeVars, violVars, cmp, parseVars>>

\* docs: the TestSession documents that carry the test's id
NoSession ==
    [exists |-> FALSE, docs |-> 0, status |-> "waiting", idx |-> 0,
     startedAt |-> NoDate, updatedAt |-> NoDate]
\* a control call: loadedStatus / loadedIdx are the document as findOne
\* returned it, status / idx the session object in memory
IdleCall ==
    [pc |-> "idle", action |-> "NONE", index |-> NoIndex,
     loadedStatus |-> "waiting", loadedIdx |-> 0,
     status |-> "waiting", idx |-> 0, total |-> 0, code |-> 0]
IdleCreate ==
    [pc |-> "idle", exists |-> FALSE, status |-> "waiting", idx |-> 0,
     started |-> FALSE, code |-> 0]
NoState == [idx |-> 0, status |-> "none"]

Max(a, b) == IF a >= b THEN a ELSE b

(* ------------------- session control: the switch ---------------------- *)
\* The in-memory effect of each case of the switch on the session object;
\* started: the case assigns startedAt = new Date().
Switched(status, idx, started) ==
    [status |-> status, idx |-> idx, started |-> started]

OnStartKeepsIndex(status, idx) == Switched("active", idx, TRUE)
OnStart(status, idx) == Switched("active", 0, TRUE)

OnNextOffByOne(status, idx, total) ==
    Switched(status, IF idx < total THEN idx + 1 ELSE idx, FALSE)
OnNext(status, idx, total) ==
    Switched(status, IF idx < total - 1 THEN idx + 1 ELSE idx, FALSE)

OnPrevUnclamped(status, idx) == Switched(status, idx - 1, FALSE)
OnPrev(status, idx) == Switched(status, Max(0, idx - 1), FALSE)

OnGotoInclusive(status, idx, index, total) ==
    Switched(status,
             IF index.num /\ index.val >= 0 /\ index.val <= total
             THEN index.val ELSE idx,
             FALSE)
OnGoto(status, idx, index, total) ==
    Switched(status,
             IF index.num /\ index.val >= 0 /\ index.val < total
             THEN index.val ELSE idx,
             FALSE)

OnPause(status, idx) == Switched("paused", idx, FALSE)
OnResume(status, idx) == Switched("active", idx, FALSE)
OnFinishRewinds(status, idx) == Switched("finished", 0, FALSE)
OnFinish(status, idx) == Switched("finished", idx, FALSE)

\* the cases of the switch; every other action takes the default branch
AnyAction(action) == TRUE
KnownAction(action) == action \in ValidActions

ControlSwitch(status, idx, action, index, total) ==
    CASE action = "START" -> OnStart(status, idx)
      [] action = "NEXT" -> OnNext(status, idx, total)
      [] action = "PREV" -> OnPrev(status, idx)
      [] action = "GOTO" -> OnGoto(status, idx, index, total)
      [] action = "PAUSE" -> OnPause(status, idx)
      [] action = "RESUME" -> OnResume(status, idx)
      [] action = "FINISH" -> OnFinish(status, idx)
      [] OTHER -> Switched(status, idx, FALSE)

\* session.save(): the document store receives the paths the call modified
\* (a path set to the value it was loaded with is not modified); updatedAt
\* and, on START, startedAt are set to new Date().
SaveSession(stored, loadedStatus, loadedIdx, sw, t) ==
    [stored EXCEPT
        !.status = IF sw.status # loadedStatus THEN sw.status ELSE @,
        !.idx = IF sw.idx # loadedIdx THEN sw.idx ELSE @,
        !.startedAt = IF sw.started THEN t ELSE @,
        !.updatedAt = t]

\* the message published on 'test-control' (testId is the one test's)
ControlMessageOfLoaded(c) ==
    [testId |-> ThisTest, idx |-> c.loadedIdx, status |-> c.status]
ControlMessage(c) == [testId |-> ThisTest, idx |-> c.idx, status |-> c.status]

(* ------------------- session control: the handler --------------------- *)
\* if (!session): findOne found no session of the test
NeverMissing(s) == FALSE
SessionMissing(s) == ~s.exists

\* TestSession.findOne({testId}); 404 when there is none.  A call begins
\* once the gateway has received what was published before (this bounds
\* the channel).
CtlFind(p) ==
    /\ ctl[p].pc \in {"idle", "done"}
    /\ channel = <<>>
    /\ ctl' = [ctl EXCEPT ![p] =
            IF SessionMissing(session)
            THEN [IdleCall EXCEPT !.pc = "done", !.code = 404]
            ELSE [IdleCall EXCEPT !.pc = "found",
                                  !.loadedStatus = session.status,
                                  !.loadedIdx = session.idx,
                                  !.status = session.status, !.idx = session.idx]]
    /\ UNCHANGED <<testExists, otherSession, nQuestions, session, now, crt, channel, room, client, page, sinceDrop, roomCount>>
    /\ UNCHANGED <<redisVars, gradeVars, violVars, cmp, parseVars>>

\* Question.countDocuments({testId})
CtlCount(p) ==
    /\ ctl[p].pc = "found"
    /\ ctl' = [ctl EXCEPT ![p].pc = "counted", ![p].total = nQuestions]
    /\ UNCHANGED <<testExists, otherSession, nQuestions, session, now, crt, channel, room, client, page, sinceDrop, roomCount>>
    /\ UNCHANGED <<redisVars, gradeVars, violVars, cmp, parseVars>>

\* the switch on the request's action, then session.save()
CtlSave(p, req) ==
    /\ ctl[p].pc = "counted"
    /\ LET c == ctl[p]
           sw == ControlSwitch(c.status, c.idx, req.action, req.index, c.total)
       IN IF KnownAction(req.action)
          THEN /\ session' = SaveSession(session, c.loadedStatus, c.loadedIdx, sw, now)
               /\ ctl' = [ctl EXCEPT ![p] =
                      [c EXCEPT !.pc = "saved", !.action = req.action,
                                !.index = req.index, !.status = sw.status,
                                !.idx = sw.idx]]
          ELSE /\ session' = session
               /\ ctl' = [ctl EXCEPT ![p] =
                      [c EXCEPT !.pc = "done", !.action = req.action,
                                !.index = req.index, !.code = 400]]
    /\ UNCHANGED <<testExists, otherSession, nQuestions, now, crt, channel, room, client, page, sinceDrop, roomCount>>
    /\ UNCHANGED <<redisVars, gradeVars, violVars, cmp, parseVars>>

\* redisPub.publish('test-control', ...), then the 200 response; a publish
\* that fails (ok = FALSE: the store is down) is caught and answered 500.
CtlPublish(p, ok) ==
    /\ ctl[p].pc = "saved"
    /\ IF ok
       THEN /\ channel' = Append(channel, ControlMessage(ctl[p]))
            /\ ctl' = [ctl EXCEPT ![p].pc = "done", ![p].code = 200]
       ELSE /\ channel' = channel
            /\ ctl' = [ctl EXCEPT ![p].pc = "done", ![p].code = 500]
    /\ UNCHANGED <<testExists, otherSession, nQuestions, session, now, crt, room, client, page, sinceDrop, roomCount>>
    /\ UNCHANGED <<redisVars, gradeVars, violVars, cmp, parseVars>>

(* ------------------------- session create ----------------------------- *)
\* Test.findById(testId), 404 when there is none; TestSession.findOne({testId})
CreateFind(p) ==
    /\ crt[p].pc \in {"idle", "done"}
    /\ crt' = [crt EXCEPT ![p] =
            IF testExists
            THEN [IdleCreate EXCEPT !.pc = "found", !.exists = session.exists,
                                    !.status = session.status, !.idx = session.idx,
                                    !.started = (session.startedAt # NoDate)]
            ELSE [IdleCreate EXCEPT !.pc = "done", !.code = 404]]
    /\ UNCHANGED <<testExists, otherSession, nQuestions, session, now, ctl, channel, room, client, page, sinceDrop, roomCount>>
    /\ UNCHANGED <<redisVars, gradeVars, violVars, cmp, parseVars>>

\* TestSession.create({testId, status: 'waiting', currentQuestionIndex: 0}):
\* testId is the collection's unique key, so the insert is refused when a
\* document of the test is stored already
InsertSession(stored, t) ==
    IF stored.docs >= 1
    THEN [ok |-> FALSE, session |-> stored]
    ELSE [ok |-> TRUE,
          session |-> [exists |-> TRUE, docs |-> stored.docs + 1,
                       status |-> "waiting", idx |-> 0,
                       startedAt |-> NoDate, updatedAt |-> t]]

\* if (session): findOne found a session of the test
NeverFound(c) == FALSE
FoundSession(c) == c.exists

\* the reset of the session found (session.save() of the modified paths),
\* or TestSession.create
CreateSave(p) ==
    /\ crt[p].pc = "found"
    /\ LET c == crt[p] IN
       IF FoundSession(c)
       THEN /\ session' = [session EXCEPT
                    !.status = IF c.status # "waiting" THEN "waiting" ELSE @,
                    !.idx = IF c.idx # 0 THEN 0 ELSE @,
                    !.startedAt = IF c.started THEN NoDate ELSE @,
                    !.updatedAt = now]
            /\ crt' = [crt EXCEPT ![p] = [IdleCreate EXCEPT !.pc = "done", !.code = 200]]
       ELSE LET ins == InsertSession(session, now) IN
            /\ session' = ins.session
            /\ crt' = [crt EXCEPT ![p] =
                   [IdleCreate EXCEPT !.pc = "done",
                                      !.code = IF ins.ok THEN 201 ELSE 500]]
    /\ UNCHANGED <<testExists, otherSession, nQuestions, now, ctl, channel, room, client, page, sinceDrop, roomCount>>
    /\ UNCHANGED <<redisVars, gradeVars, violVars, cmp, parseVars>>

\* the whole create handler when no other call runs between its awaits
CreateSession(p) ==
    /\ crt[p].pc \in {"idle", "done"}
    /\ IF ~testExists
       THEN /\ session' = session
            /\ crt' = [crt EXCEPT ![p] = [IdleCreate EXCEPT !.pc = "done", !.code = 404]]
       ELSE IF session.exists
       THEN /\ session' = [session EXCEPT !.status = "waiting", !.idx = 0,
                                          !.startedAt = NoDate, !.updatedAt = now]
            /\ crt' = [crt EXCEPT ![p] = [IdleCreate EXCEPT !.pc = "done", !.code = 200]]
       ELSE /\ session' = InsertSession(session, now).session
            /\ crt' = [crt EXCEPT ![p] = [IdleCreate EXCEPT !.pc = "done", !.code = 201]]
    /\ UNCHANGED <<testExists, otherSession, nQuestions, now, ctl, channel, room, client, page, sinceDrop, roomCount>>
    /\ UNCHANGED <<redisVars, gradeVars, violVars, cmp, parseVars>>

(* ----------------------------- gateway -------------------------------- *)
\* io.to(`test:${data.testId}`): the sockets the event is emitted to
EveryRoom(rooms, msg) == UNION {rooms[t] : t \in TestIds}
Recipients(rooms, msg) == rooms[msg.testId]

\* the test player page before its data has loaded
NoPage ==
    [loaded |-> FALSE, isLiveSession |-> FALSE, currentQIndex |-> 0,
     isSubmitting |-> FALSE]
\* the page's effect on [syncState, isLiveSession]: take the broadcast
\* question index, and submit when the test has ended
SyncEffect(pg, syncState) ==
    IF ~pg.isLiveSession \/ syncState = NoState THEN pg
    ELSE [pg EXCEPT !.currentQIndex = syncState.idx,
                    !.isSubmitting = @ \/ syncState.status = "finished"]

\* the page's load effect: after the play data, GET /api/sessions/[testId];
\* a session that is active or paused makes the page live at its index
PageLoad(s) ==
    /\ ~page[s].loaded
    /\ LET live == session.exists /\ session.status \in {"active", "paused"} IN
       page' = [page EXCEPT ![s] =
                   SyncEffect([loaded |-> TRUE, isLiveSession |-> live,
                               currentQIndex |-> IF live THEN session.idx ELSE 0,
                               isSubmitting |-> FALSE], client[s])]
    /\ UNCHANGED <<testExists, otherSession, nQuestions, session, now, ctl, crt, channel, room>>
    /\ UNCHANGED <<client, sinceDrop, roomCount, redisVars, gradeVars, violVars, cmp, parseVars>>

\* a message on test-control that is not JSON; its fields mean nothing
Malformed == [testId |-> ThisTest, idx |-> 0, status |-> "not JSON"]
\* JSON.parse(message) returns, instead of throwing into the catch
AnythingParses(msg) == TRUE
Parses(msg) == msg # Malformed
\* how many re-emitted messages are counted after a drop
MaxSinceDrop == 2

\* redisSub.on('message'): re-emit the state to the sockets of the test's
\* room; the socket's 'state-change' handler keeps it as its sync state,
\* and the page's effect on it runs.  A message that does not parse is
\* logged in the catch and nothing is emitted.
GatewayMessage ==
    /\ channel # <<>>
    /\ LET msg == Head(channel)
           to == IF Parses(msg) THEN Recipients(room, msg) ELSE {}
       IN
       /\ client' = [s \in Sockets |->
                        IF s \in to
                        THEN [idx |-> msg.idx, status |-> msg.status]
                        ELSE client[s]]
       /\ page' = [s \in Sockets |-> IF s \in to
                                     THEN SyncEffect(page[s], client'[s])
                                     ELSE page[s]]
       /\ sinceDrop' = IF ~Parses(msg) THEN 0
                       ELSE IF sinceDrop \in 0 .. MaxSinceDrop - 1 THEN sinceDrop + 1
                       ELSE sinceDrop
    /\ channel' = Tail(channel)
    /\ UNCHANGED <<testExists, otherSession, nQuestions, session, now, ctl, crt, room, roomCount>>
    /\ UNCHANGED <<redisVars, gradeVars, violVars, cmp, parseVars>>

\* some client of the store publishes on test-control a text that is not
\* JSON
PublishGarbage ==
    /\ \A i \in 1 .. Len(channel) : channel[i] # Malformed
    /\ channel' = Append(channel, Malformed)
    /\ UNCHANGED <<testExists, otherSession, nQuestions, session, now, ctl, crt, room>>
    /\ UNCHANGED <<client, page, sinceDrop, roomCount, redisVars, gradeVars, violVars, cmp, parseVars>>

\* room.size, read after socket.join
CountBeforeJoin(members, s) == Cardinality(members)
JoinCount(members, s) == Cardinality(members \cup {s})

\* socket.on('join-test'): join the room, then emit the room's size to the
\* room; the socket's 'room-count' handler keeps it
JoinTest(s, t) ==
    /\ room' = [room EXCEPT ![t] = @ \cup {s}]
    /\ roomCount' = [r \in Sockets |->
                        IF r \in room'[t] THEN JoinCount(room[t], s)
                        ELSE roomCount[r]]
    /\ UNCHANGED <<testExists, otherSession, nQuestions, session, now, ctl, crt, channel, client, page, sinceDrop>>
    /\ UNCHANGED <<redisVars, gradeVars, violVars, cmp, parseVars>>

\* socket.on('disconnect'): the socket has left every room; nothing is
\* emitted
Disconnect(s) ==
    /\ \E t \in TestIds : s \in room[t]
    /\ room' = [t \in TestIds |-> room[t] \ {s}]
    /\ UNCHANGED <<testExists, otherSession, nQuestions, session, now, ctl, crt, channel>>
    /\ UNCHANGED <<client, page, sinceDrop, roomCount, redisVars, gradeVars, violVars, cmp, parseVars>>

\* a control call for the other test saves that test's session
OtherTestSaves ==
    /\ \E st \in {"active", "finished"} :
          /\ otherSession.status # st
          /\ otherSession' = [status |-> st, idx |-> 0]
    /\ UNCHANGED <<testExists, nQuestions, session, now, ctl, crt, channel, room>>
    /\ UNCHANGED <<client, page, sinceDrop, roomCount, redisVars, gradeVars, violVars, cmp, parseVars>>

\* a control call for the other test publishes that test's state
OtherTestPublishes ==
    /\ channel = <<>>
    /\ \E st \in {"active", "finished"} :
          channel' = Append(channel, [testId |-> "U", idx |-> 0, status |-> st])
    /\ UNCHANGED <<testExists, otherSession, nQuestions, session, now, ctl, crt, room>>
    /\ UNCHANGED <<client, page, sinceDrop, roomCount, redisVars, gradeVars, violVars, cmp, parseVars>>

(* --------------------------- answer values ---------------------------- *)
\* An answer value: null / undefined, a string (s, a sequence of
\* characters), a number (n), or an array of strings (a).
Null == [t |-> "null", s |-> <<>>, a |-> <<>>, n |-> 0]
Str(s) == [t |-> "str", s |-> s, a |-> <<>>, n |-> 0]
Num(n) == [t |-> "num", s |-> <<>>, a |-> <<>>, n |-> n]
Arr(a) == [t |-> "arr", s |-> <<>>, a |-> a, n |-> 0]
\* Number(x) that is NaN
NaN == [ok |-> FALSE, n |-> 0]

\* String.prototype.toLowerCase, on the characters the model uses
Lower(c) == CASE c = "A" -> "a" [] c = "B" -> "b" [] OTHER -> c
\* the UTF-16 code unit order of the characters the model uses
CharCode(c) ==
    CASE c = " " -> 32 [] c = "0" -> 48 [] c = "2" -> 50 [] c = "4" -> 52
      [] c = "5" -> 53 [] c = "A" -> 65 [] c = "B" -> 66 [] c = "a" -> 97
      [] c = "b" -> 98 [] OTHER -> 120
IsDigit(c) == c \in {"0", "2", "4", "5"}
DigitVal(c) == CharCode(c) - 48

RECURSIVE TrimLeft(_)
TrimLeft(s) == IF s # <<>> /\ Head(s) = " " THEN TrimLeft(Tail(s)) ELSE s
RECURSIVE TrimRight(_)
TrimRight(s) ==
    IF s # <<>> /\ s[Len(s)] = " " THEN TrimRight(SubSeq(s, 1, Len(s) - 1)) ELSE s
\* v.trim().toLowerCase()
TrimLower(s) == LET t == TrimRight(TrimLeft(s)) IN [i \in 1 .. Len(t) |-> Lower(t[i])]

\* a < b as Array.prototype.sort compares strings
RECURSIVE StrLess(_, _)
StrLess(a, b) ==
    IF b = <<>> THEN FALSE
    ELSE IF a = <<>> THEN TRUE
    ELSE IF CharCode(Head(a)) # CharCode(Head(b))
         THEN CharCode(Head(a)) < CharCode(Head(b))
    ELSE StrLess(Tail(a), Tail(b))

RECURSIVE InsertSorted(_, _)
InsertSorted(x, a) ==
    IF a = <<>> THEN <<x>>
    ELSE IF StrLess(x, Head(a)) THEN <<x>> \o a
    ELSE <<Head(a)>> \o InsertSorted(x, Tail(a))
\* Array.prototype.sort() with the default comparison
KeepOrder(a) == a
RECURSIVE SortStrings(_)
SortStrings(a) ==
    IF a = <<>> THEN <<>> ELSE InsertSorted(Head(a), SortStrings(Tail(a)))

\* normalise(value)
Normalise(value) ==
    CASE value.t = "null" -> Null
      [] value.t = "str" -> IF value.s = <<>> THEN Null ELSE Str(TrimLower(value.s))
      [] value.t = "arr" ->
            Arr(SortStrings([i \in 1 .. Len(value.a) |-> TrimLower(value.a[i])]))
      [] OTHER -> value

RECURSIVE DecimalValue(_)
DecimalValue(s) ==
    IF s = <<>> THEN 0
    ELSE 10 * DecimalValue(SubSeq(s, 1, Len(s) - 1)) + DigitVal(s[Len(s)])
\* Number(s) of a string: surrounding white space is ignored, the empty
\* string is 0, a run of digits its value, anything else NaN
StringToNumber(s) ==
    LET t == TrimRight(TrimLeft(s)) IN
    IF \A i \in 1 .. Len(t) : IsDigit(t[i])
    THEN [ok |-> TRUE, n |-> DecimalValue(t)]
    ELSE NaN
\* Number(x) of a normalised value; an array converts through its join(',')
StringsAreNaN(x) == IF x.t = "num" THEN [ok |-> TRUE, n |-> x.n] ELSE NaN
ToNumber(x) ==
    CASE x.t = "num" -> [ok |-> TRUE, n |-> x.n]
      [] x.t = "str" -> StringToNumber(x.s)
      [] x.t = "arr" ->
            IF x.a = <<>> THEN [ok |-> TRUE, n |-> 0]
            ELSE IF Len(x.a) = 1 THEN StringToNumber(x.a[1])
            ELSE NaN
      [] OTHER -> [ok |-> TRUE, n |-> 0]

\* compareAnswers(givenAnswer, correctAnswer, _questionType)
CompareAnswers(given, correct, type) ==
    LET g == Normalise(given)
        c == Normalise(correct)
    IN IF g.t = "null" \/ c.t = "null" THEN FALSE
       ELSE IF g.t = "arr" /\ c.t = "arr" THEN g.a = c.a
       ELSE IF g.t = "num" /\ c.t = "num" THEN g.n = c.n
       ELSE IF g.t = "num" \/ c.t = "num"
            THEN LET a == ToNumber(g)
                     b == ToNumber(c)
                 IN a.ok /\ b.ok /\ a.n = b.n
       ELSE g = c

\* the arguments compareAnswers is called with
QuestionTypes == {"multi-mcq", "integer"}
Elements == {<<"a">>, <<" ", "A">>, <<"b">>}
RECURSIVE ArraysOf(_)
ArraysOf(n) ==
    IF n = 0 THEN {<<>>}
    ELSE ArraysOf(n - 1)
            \cup {Append(a, e) : a \in {b \in ArraysOf(n - 1) : Len(b) = n - 1},
                                 e \in Elements}
Scalars ==
    {Null, Str(<<>>), Str(<<" ">>), Str(<<"a">>), Str(<<"A", " ">>),
     Str(<<"5">>), Str(<<"0">>), Str(<<"4", "2">>), Num(0), Num(5), Num(42)}
AnswerValues == Scalars \cup {Arr(a) : a \in ArraysOf(MaxArray)}
NoComparison ==
    [given |-> Null, correct |-> Null, type |-> "integer", called |-> FALSE,
     result |-> FALSE]

\* a call of compareAnswers
CompareCall ==
    /\ ~cmp.called
    /\ cmp' = [cmp EXCEPT !.called = TRUE,
                          !.result = CompareAnswers(cmp.given, cmp.correct, cmp.type)]
    /\ UNCHANGED <<now, ctlVars, redisVars, gradeVars, violVars, parseVars>>

(* ------------------------------ grading ------------------------------- *)
Workers == {"w1", "w2"}
NoKey == <<>>
\* a field of a Question document that may be missing: <<>> when it is
\* undefined, <<n>> when it holds n
Undefined == <<>>
\* x ?? d
OrDefault(x, d) == IF x = Undefined THEN d ELSE x[1]
\* the test's Question documents, and the first one with its answer edited
Q1 ==
    [id |-> "q1", type |-> "mcq", correctAnswer |-> Str(<<"b">>), marks |-> <<2>>,
     negativeMarks |-> Undefined]
Q1Edited == [Q1 EXCEPT !.correctAnswer = Str(<<"a">>)]
Q2 ==
    [id |-> "q2", type |-> "integer", correctAnswer |-> Num(5),
     marks |-> Undefined, negativeMarks |-> <<1>>]
\* the CachedQuestion getAnswerKey makes of a Question document
PenaltyByDefault(q) ==
    [id |-> q.id, type |-> q.type, correctAnswer |-> q.correctAnswer,
     marks |-> OrDefault(q.marks, 1),
     negativeMarks |-> OrDefault(q.negativeMarks, 1)]
CachedQuestion(q) ==
    [id |-> q.id, type |-> q.type, correctAnswer |-> q.correctAnswer,
     marks |-> OrDefault(q.marks, 1),
     negativeMarks |-> OrDefault(q.negativeMarks, 0)]
\* questions.map(...) of getAnswerKey
AnswerKey(docs) == [i \in 1 .. Len(docs) |-> CachedQuestion(docs[i])]
\* a recorded answer, before grading: {questionId, givenAnswer}; attached
\* tells whether the entry has the properties isMarkedCorrect and
\* awardedMarks, whose values mean nothing while it has not
Answer(questionId, givenAnswer) ==
    [questionId |-> questionId, givenAnswer |-> givenAnswer,
     attached |-> FALSE, isMarkedCorrect |-> FALSE, awardedMarks |-> 0]
\* the answers an attempt may hold when it is submitted
AttemptAnswers ==
    {<<Answer("q1", g1), Answer("q2", g2)>> :
        g1 \in {Str(<<"B">>), Str(<<"a">>)},
        g2 \in {Null, Str(<<>>), Arr(<<>>), Num(5), Str(<<"4">>)}}

\* the wasAnswered test of gradeAttempt
AlwaysAnswered(given) == TRUE
WasAnswered(given) ==
    /\ given.t # "null"
    /\ ~(given.t = "str" /\ given.s = <<>>)
    /\ ~(given.t = "arr" /\ given.a = <<>>)

\* answerKey.find(q => q._id === ans.questionId.toString())
KeyEntries(key, q) == {i \in 1 .. Len(key) : key[i].id = q}
FindQuestion(key, q) ==
    key[CHOOSE i \in KeyEntries(key, q) : \A j \in KeyEntries(key, q) : i <= j]

\* the callback of attempt.answers.map
GradeAnswer(ans, key) ==
    IF KeyEntries(key, ans.questionId) = {} THEN ans
    ELSE LET question == FindQuestion(key, ans.questionId)
             isCorrect ==
                 /\ WasAnswered(ans.givenAnswer)
                 /\ CompareAnswers(ans.givenAnswer, question.correctAnswer,
                                   question.type)
             awardedMarks == IF ~WasAnswered(ans.givenAnswer) THEN 0
                             ELSE IF isCorrect THEN question.marks
                             ELSE 0 - question.negativeMarks
         IN [ans EXCEPT !.attached = TRUE,
                        !.isMarkedCorrect = isCorrect,
                        !.awardedMarks = awardedMarks]

\* totalScore: the sum of awardedMarks over the answers whose question is
\* in the key
RECURSIVE TotalScore(_, _)
TotalScore(answers, key) ==
    IF answers = <<>> THEN 0
    ELSE (IF KeyEntries(key, Head(answers).questionId) = {} THEN 0
          ELSE GradeAnswer(Head(answers), key).awardedMarks)
         + TotalScore(Tail(answers), key)

\* the attempts the calls name: the one that is followed, and another
ThisAttempt == "a1"
OtherAttempt == "a2"
IdleGrade ==
    [pc |-> "idle", via |-> "none", attemptId |-> ThisAttempt,
     loaded |-> <<>>, submittedAt |-> NoDate,
     cache |-> "none", key |-> NoKey, wrote |-> FALSE, code |-> 0]

\* redis.connect() of the shared client when it is not ready: ready (and
\* the 'connect' handler marks the store available) when the server is
\* reachable; otherwise the call is rejected and the client goes on
\* retrying, unless its retries were used up before: then retryStrategy
\* stops it at once and marks the store unavailable
Connected == [ok |-> TRUE, status |-> "ready", available |-> "true"]
ConnectFailed == [ok |-> FALSE, status |-> "end", available |-> "false"]
RedisConnect ==
    IF storeUp THEN Connected
    ELSE IF redisStatus = "end" THEN ConnectFailed
    ELSE [ok |-> FALSE, status |-> "reconnecting", available |-> redisAvailable]

\* the grading worker takes a grade-attempt or test-expiry job that names
\* the attempt id
WorkerJob(w, id) ==
    /\ grd[w].pc \in {"idle", "done"}
    /\ grd' = [grd EXCEPT ![w] = [IdleGrade EXCEPT !.pc = "called", !.via = "job",
                                                   !.attemptId = id]]
    /\ UNCHANGED <<now, cmp, parseVars, ctlVars, redisVars, violVars>>
    /\ UNCHANGED <<questions, keyCache, attempt, otherAttempt, gradeWrites>>

\* the route's own test of the attempt it has found
NeverRefused(att) == FALSE
SubmitRefused(att) == att.status = "graded"

\* POST /api/attempts/[id]/submit up to its call of gradeAttempt: 400 when
\* the attempt is graded already
SubmitAttempt(w) ==
    /\ grd[w].pc \in {"idle", "done"}
    /\ grd' = [grd EXCEPT ![w] =
            IF SubmitRefused(attempt)
            THEN [IdleGrade EXCEPT !.pc = "done", !.via = "submit", !.code = 400]
            ELSE [IdleGrade EXCEPT !.pc = "called", !.via = "submit"]]
    /\ UNCHANGED <<now, cmp, parseVars, ctlVars, redisVars, violVars>>
    /\ UNCHANGED <<questions, keyCache, attempt, otherAttempt, gradeWrites>>

\* the idempotence guard of gradeAttempt
NeverGraded(att) == FALSE
AlreadyGraded(att) == att.status = "graded"

\* Attempt.findById(attemptId)
FindAnyAttempt(id) == attempt
FindAttempt(id) == IF id = ThisAttempt THEN attempt ELSE otherAttempt

\* gradeAttempt: Attempt.findById and the guard
GradeFind(w) ==
    /\ grd[w].pc = "called"
    /\ grd' = [grd EXCEPT ![w] =
            LET found == FindAttempt(grd[w].attemptId) IN
            IF AlreadyGraded(found)
            THEN [@ EXCEPT !.pc = "done", !.code = 200]
            ELSE [@ EXCEPT !.pc = "loaded", !.loaded = found.answers,
                           !.submittedAt = found.submittedAt]]
    /\ UNCHANGED <<now, cmp, parseVars, ctlVars, redisVars, violVars>>
    /\ UNCHANGED <<questions, keyCache, attempt, otherAttempt, gradeWrites>>

\* getAnswerKey: connect the shared client when it is not ready; a failure
\* is caught and goes on to the document store
KeyCacheRead(w) ==
    /\ grd[w].pc = "loaded"
    /\ LET conn == IF redisStatus = "ready" THEN Connected ELSE RedisConnect
       IN /\ redisStatus' = conn.status
          /\ redisAvailable' = IF redisStatus = "ready" THEN redisAvailable
                               ELSE conn.available
          /\ grd' = [grd EXCEPT ![w] =
                 IF conn.ok THEN [@ EXCEPT !.pc = "connected"]
                 ELSE [@ EXCEPT !.pc = "miss", !.cache = "failed"]]
    /\ UNCHANGED <<now, cmp, parseVars, ctlVars, storeUp, violVars>>
    /\ UNCHANGED <<questions, keyCache, attempt, otherAttempt, gradeWrites>>

\* getAnswerKey: redis.get; the command waits while the client reconnects
\* and is rejected when the client has ended; a rejection is caught, and it
\* and a miss go on to the document store
KeyCacheGet(w) ==
    /\ grd[w].pc = "connected"
    /\ redisStatus \in {"ready", "end"}
    /\ grd' = [grd EXCEPT ![w] =
            IF redisStatus = "end" THEN [@ EXCEPT !.pc = "miss", !.cache = "failed"]
            ELSE IF keyCache # NoKey
            THEN [@ EXCEPT !.pc = "keyed", !.cache = "hit", !.key = keyCache]
            ELSE [@ EXCEPT !.pc = "miss", !.cache = "miss"]]
    /\ UNCHANGED <<now, cmp, parseVars, ctlVars, redisVars, violVars>>
    /\ UNCHANGED <<questions, keyCache, attempt, otherAttempt, gradeWrites>>

\* getAnswerKey: Question.find and the normalisation of each question
KeyDbRead(w) ==
    /\ grd[w].pc = "miss"
    /\ grd' = [grd EXCEPT ![w].pc = "fetched", ![w].key = AnswerKey(questions)]
    /\ UNCHANGED <<now, cmp, parseVars, ctlVars, redisVars, violVars>>
    /\ UNCHANGED <<questions, keyCache, attempt, otherAttempt, gradeWrites>>

\* getAnswerKey: redis.set when the client is ready; a failure is swallowed
KeyCacheWrite(w) ==
    /\ grd[w].pc = "fetched"
    /\ keyCache' = IF redisStatus = "ready" THEN grd[w].key ELSE keyCache
    /\ grd' = [grd EXCEPT ![w].pc = "keyed"]
    /\ UNCHANGED <<now, cmp, parseVars, ctlVars, redisVars, violVars>>
    /\ UNCHANGED <<questions, attempt, otherAttempt, gradeWrites>>

\* attempt.save() of the Attempt model: the document store writes the
\* fields the call has set over the stored ones, the last writer winning
SaveAttempt(stored, graded) == graded

\* gradeAttempt: grade every loaded answer, then attempt.save()
GradeSave(w) ==
    /\ grd[w].pc = "keyed"
    /\ LET graded ==
               [status |-> "graded",
                answers |-> [i \in 1 .. Len(grd[w].loaded) |->
                                GradeAnswer(grd[w].loaded[i], grd[w].key)],
                score |-> TotalScore(grd[w].loaded, grd[w].key),
                submittedAt |-> IF grd[w].submittedAt = NoDate THEN now
                                ELSE grd[w].submittedAt,
                gradedAt |-> now]
       IN IF grd[w].attemptId = ThisAttempt
          THEN /\ attempt' = SaveAttempt(attempt, graded)
               /\ gradeWrites' = IF gradeWrites < 2 THEN gradeWrites + 1
                                 ELSE gradeWrites
               /\ UNCHANGED otherAttempt
          ELSE /\ otherAttempt' = SaveAttempt(otherAttempt, graded)
               /\ UNCHANGED <<attempt, gradeWrites>>
    /\ grd' = [grd EXCEPT ![w].pc = "done", ![w].wrote = TRUE, ![w].code = 200]
    /\ UNCHANGED <<now, cmp, parseVars, ctlVars, redisVars, violVars>>
    /\ UNCHANGED <<questions, keyCache>>

\* a question's correct answer is edited outside the core
EditQuestion ==
    /\ questions' = IF questions[1] = Q1 THEN <<Q1Edited, Q2>> ELSE <<Q1, Q2>>
    /\ UNCHANGED <<now, cmp, parseVars, ctlVars, redisVars, violVars>>
    /\ UNCHANGED <<keyCache, attempt, otherAttempt, grd, gradeWrites>>

\* the cached answer key outlives ANSWER_KEY_TTL
KeyExpires ==
    /\ keyCache # NoKey
    /\ keyCache' = NoKey
    /\ UNCHANGED <<now, cmp, parseVars, ctlVars, redisVars, violVars>>
    /\ UNCHANGED <<questions, attempt, otherAttempt, grd, gradeWrites>>

(* ------------------------- violation tracker -------------------------- *)
MAX_VIOLATIONS == 5
\* the requests that report a violation of the attempt
Reports == {"r1", "r2"}
ViolationTypes == {"tab_switch", "no_face"}
\* remaining seconds of the attempt, as the caller passes them
Ttls == {600, 1200}
NoViolations == [exists |-> FALSE, count |-> 0, list |-> <<>>, ttl |-> 0]
\* before: the record that was stored when the call's getViolationData ran
IdleViolation ==
    [pc |-> "idle", type |-> "none", ttl |-> 0, count |-> 0, list |-> <<>>,
     before |-> [count |-> 0, list |-> <<>>], auto |-> FALSE, code |-> 0]
ViolationsInFlight ==
    {p \in Reports : vio[p].pc \in {"connected", "getting", "read"}}

\* ensureConnected(): true when the client is ready, false when the store
\* was marked unavailable, otherwise the outcome of redis.connect()
EnsureConnected ==
    IF redisStatus = "ready"
    THEN [ok |-> TRUE, status |-> redisStatus, available |-> redisAvailable]
    ELSE IF redisAvailable = "false"
    THEN [ok |-> FALSE, status |-> redisStatus, available |-> redisAvailable]
    ELSE RedisConnect

\* shouldAutoSubmit (and the comparison that fires one call later)
AboveThreshold(count) == count > MAX_VIOLATIONS
ShouldAutoSubmit(count) == count >= MAX_VIOLATIONS

\* what getViolationData returns: the stored record, or the empty one
CurrentViolations(stored) ==
    IF stored.exists THEN [count |-> stored.count, list |-> stored.list]
    ELSE [count |-> 0, list |-> <<>>]

\* recordViolation: the first ensureConnected; the zeroed record when it fails
RecordBegin(p, type, ttl) ==
    /\ vio[p].pc \in {"idle", "done"}
    /\ recorded + Cardinality(ViolationsInFlight) < MaxViolationCalls
    /\ LET conn == EnsureConnected IN
       /\ redisStatus' = conn.status
       /\ redisAvailable' = conn.available
       /\ vio' = [vio EXCEPT ![p] =
              IF conn.ok
              THEN [IdleViolation EXCEPT !.pc = "connected", !.type = type, !.ttl = ttl]
              ELSE [IdleViolation EXCEPT !.pc = "done", !.type = type, !.ttl = ttl,
                                         !.code = 200]]
    /\ UNCHANGED <<now, cmp, parseVars, ctlVars, storeUp, gradeVars, violations, recorded>>

\* getViolationData: its ensureConnected; the empty record when it fails
RecordRead(p) ==
    /\ vio[p].pc = "connected"
    /\ LET conn == EnsureConnected
       IN /\ redisStatus' = conn.status
          /\ redisAvailable' = conn.available
          /\ vio' = [vio EXCEPT ![p] =
                 IF conn.ok THEN [@ EXCEPT !.pc = "getting"]
                 ELSE [@ EXCEPT !.pc = "read", !.count = 0, !.list = <<>>,
                                !.before = CurrentViolations(violations)]]
    /\ UNCHANGED <<now, cmp, parseVars, ctlVars, storeUp, gradeVars, violations, recorded>>

\* getViolationData: redis.get and JSON.parse; the command waits while the
\* client reconnects, and when the client has ended it is rejected and
\* recordViolation throws
RecordGet(p) ==
    /\ vio[p].pc = "getting"
    /\ redisStatus \in {"ready", "end"}
    /\ LET current == CurrentViolations(violations)
       IN vio' = [vio EXCEPT ![p] =
              IF redisStatus = "ready"
              THEN [@ EXCEPT !.pc = "read", !.count = current.count,
                             !.list = current.list, !.before = current]
              ELSE [@ EXCEPT !.pc = "done", !.code = 500]]
    /\ UNCHANGED <<now, cmp, parseVars, ctlVars, redisVars, gradeVars, violations, recorded>>

\* the expiry redis.set gives the record: 'EX', ttlSeconds
ExpiryFromFirst(stored, ttl) == IF stored.exists THEN stored.ttl ELSE ttl
Expiry(stored, ttl) == ttl

\* the updated record, redis.set with EX ttlSeconds, and the result; the
\* command waits while the client reconnects and fails when it has ended
RecordWrite(p) ==
    /\ vio[p].pc = "read"
    /\ redisStatus \in {"ready", "end"}
    /\ LET count == vio[p].count + 1
           list == Append(vio[p].list, [type |-> vio[p].type, timestamp |-> now])
       IN IF redisStatus = "ready"
          THEN /\ violations' = [exists |-> TRUE, count |-> count, list |-> list,
                                 ttl |-> Expiry(violations, vio[p].ttl)]
               /\ vio' = [vio EXCEPT ![p].pc = "done", ![p].count = count,
                                     ![p].list = list,
                                     ![p].auto = ShouldAutoSubmit(count),
                                     ![p].code = 200]
               /\ recorded' = recorded + 1
          ELSE /\ vio' = [vio EXCEPT ![p].pc = "done", ![p].code = 500]
               /\ UNCHANGED <<violations, recorded>>
    /\ UNCHANGED <<now, cmp, parseVars, ctlVars, redisVars, gradeVars>>

\* resetViolations: ensureConnected, then redis.del of the attempt's key
ResetViolations ==
    /\ LET conn == EnsureConnected IN
       /\ redisStatus' = conn.status
       /\ redisAvailable' = conn.available
       /\ violations' = IF conn.ok THEN NoViolations ELSE violations
    /\ UNCHANGED <<now, cmp, parseVars, ctlVars, storeUp, gradeVars, vio, recorded>>

\* the stored record outlives its expiry: the store drops the key
RecordExpires ==
    /\ violations.exists
    /\ violations' = NoViolations
    /\ UNCHANGED <<now, cmp, parseVars, ctlVars, redisVars, gradeVars, vio, recorded>>

(* ------------------------- queued extraction -------------------------- *)
\* the uploads, each a POST parse-pdf with PDF_PARSE_QUEUE_ENABLED 'true'
Uploads == {"u1", "u2"}
\* attempts: 2 of the job options
ThreeAttempts == 2 + 1
ParseAttempts == 2
\* PDF_PARSE_WORKER_CONCURRENCY, by default
ParseConcurrency == 2
NoJob == [state |-> "none", attemptsMade |-> 0]
IdlePost == [pc |-> "idle", code |-> 0, status |-> "none"]
NoPoll == [code |-> 0, status |-> "none"]
\* the job is completed or failed
Finished(j) == j.state \in {"completed", "failed"}

\* POST parse-pdf up to waitUntilFinished: 400 without a file, else the job
\* is added to pdf-parse-queue
ParsePost(u, file) ==
    /\ post[u].pc = "idle"
    /\ IF file
       THEN /\ job' = [job EXCEPT ![u] = [NoJob EXCEPT !.state = "waiting"]]
            /\ post' = [post EXCEPT ![u].pc = "waiting"]
       ELSE /\ post' = [post EXCEPT ![u] = [pc |-> "done", code |-> 400,
                                             status |-> "error"]]
            /\ UNCHANGED job
    /\ UNCHANGED <<now, cmp, poll, ctlVars, redisVars, gradeVars, violVars>>

\* pdfParseWorker takes a waiting job
WorkerTake(u) ==
    /\ job[u].state = "waiting"
    /\ Cardinality({v \in Uploads : job[v].state = "active"}) < ParseConcurrency
    /\ job' = [job EXCEPT ![u].state = "active"]
    /\ UNCHANGED <<now, cmp, post, poll, ctlVars, redisVars, gradeVars, violVars>>

\* the processor returns {questions, sourceType, extractedCount}
ExtractReturns(u) ==
    /\ job[u].state = "active"
    /\ job' = [job EXCEPT ![u].state = "completed"]
    /\ UNCHANGED <<now, cmp, post, poll, ctlVars, redisVars, gradeVars, violVars>>

\* extractPdfQuestions throws: the job is retried after its backoff until
\* it has been attempted ParseAttempts times, then it is failed
ExtractThrows(u) ==
    /\ job[u].state = "active"
    /\ job' = [job EXCEPT ![u].attemptsMade = @ + 1,
                          ![u].state = IF job[u].attemptsMade + 1 < ParseAttempts
                                       THEN "delayed" ELSE "failed"]
    /\ UNCHANGED <<now, cmp, post, poll, ctlVars, redisVars, gradeVars, violVars>>

\* the backoff delay of a retried job is over
BackoffOver(u) ==
    /\ job[u].state = "delayed"
    /\ job' = [job EXCEPT ![u].state = "waiting"]
    /\ UNCHANGED <<now, cmp, post, poll, ctlVars, redisVars, gradeVars, violVars>>

\* job.waitUntilFinished settles before waitMs: it resolves with the
\* result of a completed job (200); for a failed job it rejects, and the
\* catch answers 202 with the jobId and status 'queued'
WaitUntilFinished(u) ==
    /\ post[u].pc = "waiting"
    /\ Finished(job[u])
    /\ post' = [post EXCEPT ![u] =
            IF job[u].state = "completed"
            THEN [pc |-> "done", code |-> 200, status |-> "result"]
            ELSE [pc |-> "done", code |-> 202, status |-> "queued"]]
    /\ UNCHANGED <<now, cmp, job, poll, ctlVars, redisVars, gradeVars, violVars>>

\* waitMs pass with the job unfinished: waitUntilFinished rejects, and the
\* catch answers 202 with the jobId and status 'queued'
WaitTimeout(u) ==
    /\ post[u].pc = "waiting"
    /\ ~Finished(job[u])
    /\ post' = [post EXCEPT ![u] = [pc |-> "done", code |-> 202, status |-> "queued"]]
    /\ UNCHANGED <<now, cmp, job, poll, ctlVars, redisVars, gradeVars, violVars>>

\* what GET parse-pdf?jobId= answers for the job
PollResponse(j) ==
    CASE j.state \in {"none", "removed"} -> [code |-> 404, status |-> "error"]
      [] j.state = "completed" -> [code |-> 200, status |-> "completed"]
      [] j.state = "failed" -> [code |-> 500, status |-> "failed"]
      [] OTHER -> [code |-> 200, status |-> j.state]

\* GET parse-pdf with the jobId of a 202 answer
PollJob(u) ==
    /\ post[u].status = "queued"
    /\ poll' = [poll EXCEPT ![u] = PollResponse(job[u])]
    /\ UNCHANGED <<now, cmp, job, post, ctlVars, redisVars, gradeVars, violVars>>

\* removeOnComplete / removeOnFail: a finished job is removed by age or count
JobRemoved(u) ==
    /\ Finished(job[u])
    /\ job' = [job EXCEPT ![u].state = "removed"]
    /\ UNCHANGED <<now, cmp, post, poll, ctlVars, redisVars, gradeVars, violVars>>

(* --------------------------- environment ------------------------------ *)
\* the store goes away; a ready client loses its connection and starts to
\* reconnect (retryStrategy returns a delay for the first MAX_RETRIES tries)
StoreDown ==
    /\ storeUp
    /\ storeUp' = FALSE
    /\ redisStatus' = IF redisStatus = "ready" THEN "reconnecting" ELSE redisStatus
    /\ UNCHANGED <<now, cmp, parseVars, ctlVars, redisAvailable, gradeVars, violVars>>

\* the store comes back
StoreUp ==
    /\ ~storeUp
    /\ storeUp' = TRUE
    /\ UNCHANGED <<now, cmp, parseVars, ctlVars, redisStatus, redisAvailable, gradeVars, violVars>>

\* a retry of the client reaches the store: the 'connect' handler runs
Reconnected ==
    /\ redisStatus = "reconnecting" /\ storeUp
    /\ redisStatus' = "ready"
    /\ redisAvailable' = "true"
    /\ UNCHANGED <<now, cmp, parseVars, ctlVars, storeUp, gradeVars, violVars>>

\* retryStrategy is called for the time after MAX_RETRIES: it marks the
\* store unavailable and the client ends
RetriesExhausted ==
    /\ redisStatus = "reconnecting" /\ ~storeUp
    /\ redisStatus' = "end"
    /\ redisAvailable' = "false"
    /\ UNCHANGED <<now, cmp, parseVars, ctlVars, storeUp, gradeVars, violVars>>

\* the test's questions are authored outside the core
AuthorQuestions ==
    /\ \E n \in 0 .. MaxQ : n # nQuestions /\ nQuestions' = n
    /\ UNCHANGED <<testExists, otherSession, session, now, ctl, crt, channel, room, client, page, sinceDrop, roomCount>>
    /\ UNCHANGED <<redisVars, gradeVars, violVars, cmp, parseVars>>

Tick ==
    /\ now < MaxTime
    /\ now' = now + 1
    /\ UNCHANGED <<testExists, otherSession, nQuestions, session, ctl, crt, channel, room, client, page, sinceDrop, roomCount>>
    /\ UNCHANGED <<redisVars, gradeVars, violVars, cmp, parseVars>>

\* the state before any call, with one test, its two questions, no session
\* and an attempt in progress
CtlQuiet ==
    /\ session = NoSession
    /\ otherSession = [status |-> "waiting", idx |-> 0]
    /\ ctl = [p \in Admins |-> IdleCall]
    /\ crt = [p \in Admins |-> IdleCreate]
    /\ channel = <<>>
    /\ room = [t \in TestIds |-> {}]
    /\ client = [s \in Sockets |-> NoState]
    /\ page = [s \in Sockets |-> NoPage]
    /\ sinceDrop = -1
    /\ roomCount = [s \in Sockets |-> 0]
RedisQuiet ==
    /\ storeUp = TRUE
    /\ redisStatus = "wait"
    /\ redisAvailable = "null"
NewAttempt(answers) ==
    [status |-> "in_progress", answers |-> answers, score |-> 0,
     submittedAt |-> NoDate, gradedAt |-> NoDate]
GradeQuiet ==
    /\ questions = <<Q1, Q2>>
    /\ keyCache = NoKey
    /\ grd = [w \in Workers |-> IdleGrade]
    /\ gradeWrites = 0
    /\ otherAttempt = NewAttempt(<<Answer("q1", Str(<<"a">>)), Answer("q2", Num(5))>>)
CompareQuiet == cmp = NoComparison
ParseQuiet ==
    /\ job = [u \in Uploads |-> NoJob]
    /\ post = [u \in Uploads |-> IdlePost]
    /\ poll = [u \in Uploads |-> NoPoll]
ViolationQuiet ==
    /\ violations = NoViolations
    /\ vio = [p \in Reports |-> IdleViolation]
    /\ recorded = 0

Init ==
    /\ now = 0
    /\ testExists = TRUE
    /\ nQuestions = Len(<<Q1, Q2>>)
    /\ attempt = NewAttempt(<<Answer("q1", Str(<<"B">>)), Answer("q2", Null)>>)
    /\ CtlQuiet /\ RedisQuiet /\ GradeQuiet /\ ViolationQuiet /\ CompareQuiet
    /\ ParseQuiet

\* session control: any test, with any number of questions
CtlInit ==
    /\ now = 0
    /\ testExists \in BOOLEAN
    /\ nQuestions \in 0 .. MaxQ
    /\ attempt = NewAttempt(<<Answer("q1", Str(<<"B">>)), Answer("q2", Null)>>)
    /\ CtlQuiet /\ RedisQuiet /\ GradeQuiet /\ ViolationQuiet /\ CompareQuiet
    /\ ParseQuiet

\* control and create calls of one server process, one call at a time
CtlNext ==
    \/ \E p \in OneAdmin : CtlFind(p)
    \/ \E p \in OneAdmin : CtlCount(p)
    \/ \E p \in OneAdmin : \E req \in Requests : CtlSave(p, req)
    \/ \E p \in OneAdmin : \E ok \in BOOLEAN : CtlPublish(p, ok)
    \/ \E p \in OneAdmin : CreateSession(p)
    \/ GatewayMessage
    \/ AuthorQuestions
    \/ Tick

SpecCtl == CtlInit /\ [][CtlNext]_vars

\* grading: any submitted answers
GradeInit ==
    /\ now = 0
    /\ testExists = TRUE
    /\ nQuestions = Len(<<Q1, Q2>>)
    /\ attempt \in {NewAttempt(a) : a \in AttemptAnswers}
    /\ CtlQuiet /\ RedisQuiet /\ GradeQuiet /\ ViolationQuiet /\ CompareQuiet
    /\ ParseQuiet

\* grading: an attempt with an answer to a question the test no longer has
OrphanAnswers ==
    {<<Answer("q1", g1), Answer("q3", g3)>> :
        g1 \in {Str(<<"B">>), Str(<<"a">>)},
        g3 \in {Null, Str(<<"b">>)}}
OrphanInit ==
    /\ now = 0
    /\ testExists = TRUE
    /\ nQuestions = Len(<<Q1, Q2>>)
    /\ attempt \in {NewAttempt(a) : a \in OrphanAnswers}
    /\ CtlQuiet /\ RedisQuiet /\ GradeQuiet /\ ViolationQuiet /\ CompareQuiet
    /\ ParseQuiet

NoGradeInFlight == \A w \in Workers : grd[w].pc \in {"idle", "done"}

GradeSteps ==
    \/ \E w \in Workers : GradeFind(w)
    \/ \E w \in Workers : KeyCacheRead(w)
    \/ \E w \in Workers : KeyCacheGet(w)
    \/ \E w \in Workers : KeyDbRead(w)
    \/ \E w \in Workers : KeyCacheWrite(w)
    \/ \E w \in Workers : GradeSave(w)
    \/ EditQuestion
    \/ KeyExpires

\* gradeAttempt calls (grading jobs and submits) that run at the same time
GradeNext ==
    \/ \E w \in Workers : WorkerJob(w, ThisAttempt)
    \/ \E w \in Workers : SubmitAttempt(w)
    \/ GradeSteps

SpecGrade == GradeInit /\ [][GradeNext]_vars

\* gradeAttempt calls while the cache backend comes and goes
CacheOutageNext ==
    \/ \E w \in Workers : WorkerJob(w, ThisAttempt)
    \/ \E w \in Workers : GradeFind(w)
    \/ \E w \in Workers : KeyCacheRead(w)
    \/ \E w \in Workers : KeyCacheGet(w)
    \/ \E w \in Workers : KeyDbRead(w)
    \/ \E w \in Workers : KeyCacheWrite(w)
    \/ \E w \in Workers : GradeSave(w)
    \/ KeyExpires
    \/ StoreDown
    \/ StoreUp
    \/ Reconnected
    \/ RetriesExhausted

SpecCacheOutage == Init /\ [][CacheOutageNext]_vars

\* gradeAttempt calls one after the other: a call begins when none runs
GradeSeqNext ==
    \/ \E w \in Workers : NoGradeInFlight /\ WorkerJob(w, ThisAttempt)
    \/ \E w \in Workers : NoGradeInFlight /\ SubmitAttempt(w)
    \/ GradeSteps
    \/ Tick

SpecGradeSeq == GradeInit /\ [][GradeSeqNext]_vars

\* grading jobs that name distinct attempts, run by the worker's slots at
\* the same time
NoJobFor(id) == \A w \in Workers : grd[w].pc = "idle" \/ grd[w].attemptId # id
IsolatedNext ==
    \/ \E w \in Workers : \E id \in {ThisAttempt, OtherAttempt} :
          grd[w].pc = "idle" /\ NoJobFor(id) /\ WorkerJob(w, id)
    \/ \E w \in Workers : GradeFind(w)
    \/ \E w \in Workers : KeyCacheRead(w)
    \/ \E w \in Workers : KeyCacheGet(w)
    \/ \E w \in Workers : KeyDbRead(w)
    \/ \E w \in Workers : KeyCacheWrite(w)
    \/ \E w \in Workers : GradeSave(w)
    \/ KeyExpires
    \/ Tick

SpecIsolated == GradeInit /\ [][IsolatedNext]_vars

SpecGradeOrphan == OrphanInit /\ [][GradeSeqNext]_vars

NoViolationInFlight == ViolationsInFlight = {}

\* recordViolation calls of the attempt that run at the same time, the
\* store reachable
ViolationNext ==
    \/ \E p \in Reports : \E type \in ViolationTypes : RecordBegin(p, type, 600)
    \/ \E p \in Reports : RecordRead(p)
    \/ \E p \in Reports : RecordGet(p)
    \/ \E p \in Reports : RecordWrite(p)

SpecViolation == Init /\ [][ViolationNext]_vars

\* recordViolation calls one after the other, the store reachable
ViolationSeqNext ==
    \/ \E p \in Reports : \E type \in ViolationTypes : \E ttl \in Ttls :
          NoViolationInFlight /\ RecordBegin(p, type, ttl)
    \/ \E p \in Reports : RecordRead(p)
    \/ \E p \in Reports : RecordGet(p)
    \/ \E p \in Reports : RecordWrite(p)

SpecViolationSeq == Init /\ [][ViolationSeqNext]_vars

\* recordViolation calls one after the other, with any remaining time,
\* while the record expires or is reset
ViolationResetNext ==
    \/ \E p \in Reports : \E type \in ViolationTypes : \E ttl \in Ttls :
          NoViolationInFlight /\ RecordBegin(p, type, ttl)
    \/ \E p \in Reports : RecordRead(p)
    \/ \E p \in Reports : RecordGet(p)
    \/ \E p \in Reports : RecordWrite(p)
    \/ ResetViolations
    \/ RecordExpires

SpecViolationReset == Init /\ [][ViolationResetNext]_vars

\* recordViolation calls one after the other while the store comes and goes
ViolationOutageNext ==
    \/ \E p \in Reports : \E type \in ViolationTypes :
          NoViolationInFlight /\ RecordBegin(p, type, 600)
    \/ \E p \in Reports : RecordRead(p)
    \/ \E p \in Reports : RecordGet(p)
    \/ \E p \in Reports : RecordWrite(p)
    \/ StoreDown
    \/ StoreUp
    \/ Reconnected
    \/ RetriesExhausted

SpecViolationOutage == Init /\ [][ViolationOutageNext]_vars

\* the same, with calls that keep arriving and steps that are not held
\* back: a handler's awaited step runs once it can, and the client's retry
\* timer fires; the store itself comes and goes as it likes
ViolationFairness ==
    /\ WF_vars(\E p \in Reports : \E type \in ViolationTypes :
                  NoViolationInFlight /\ RecordBegin(p, type, 600))
    /\ \A p \in Reports :
          WF_vars(RecordRead(p)) /\ WF_vars(RecordGet(p)) /\ WF_vars(RecordWrite(p))
    /\ WF_vars(Reconnected)

SpecViolationRecovery == SpecViolationOutage /\ ViolationFairness

\* control calls of two server processes on one session, the test holding
\* MaxQ questions
RaceInit ==
    /\ now = 0
    /\ testExists = TRUE
    /\ nQuestions = MaxQ
    /\ attempt = NewAttempt(<<Answer("q1", Str(<<"B">>)), Answer("q2", Null)>>)
    /\ CtlQuiet /\ RedisQuiet /\ GradeQuiet /\ ViolationQuiet /\ CompareQuiet
    /\ ParseQuiet

RaceRequests ==
    {[action |-> a, index |-> NoIndex] : a \in {"START", "NEXT", "PREV", "PAUSE"}}

RaceNext ==
    \/ \E p \in OneAdmin : ~session.exists /\ CreateSession(p)
    \/ \E p \in Admins : CtlFind(p)
    \/ \E p \in Admins : CtlCount(p)
    \/ \E p \in Admins : \E req \in RaceRequests : CtlSave(p, req)
    \/ \E p \in Admins : \E ok \in BOOLEAN : CtlPublish(p, ok)
    \/ GatewayMessage

SpecRace == RaceInit /\ [][RaceNext]_vars

\* control calls of one server process with every request, one at a time,
\* while the other test is controlled as well
FrameNext ==
    \/ \E p \in OneAdmin : ~session.exists /\ CreateSession(p)
    \/ \E p \in OneAdmin : CtlFind(p)
    \/ \E p \in OneAdmin : CtlCount(p)
    \/ \E p \in OneAdmin : \E req \in Requests : CtlSave(p, req)
    \/ \E p \in OneAdmin : CtlPublish(p, TRUE)
    \/ OtherTestSaves
    \/ GatewayMessage
    \/ Tick

SpecFrame == RaceInit /\ [][FrameNext]_vars

\* control calls of two server processes whose publishes all succeed, with
\* sockets joining the test's room
ConvergeRequests ==
    {[action |-> a, index |-> NoIndex] : a \in {"START", "NEXT", "PAUSE"}}

ConvergeNext ==
    \/ \E p \in OneAdmin : ~session.exists /\ CreateSession(p)
    \/ \E p \in Admins : CtlFind(p)
    \/ \E p \in Admins : CtlCount(p)
    \/ \E p \in Admins : \E req \in ConvergeRequests : CtlSave(p, req)
    \/ \E p \in Admins : CtlPublish(p, TRUE)
    \/ GatewayMessage
    \/ \E s \in Sockets : JoinTest(s, ThisTest)

SpecConverge == RaceInit /\ [][ConvergeNext]_vars

NoCreateInFlight == \A p \in Admins : crt[p].pc \in {"idle", "done"}
NoControlInFlight == \A p \in Admins : ctl[p].pc \in {"idle", "done"}
CreateRequests ==
    {[action |-> a, index |-> NoIndex] : a \in {"START", "NEXT", "FINISH"}}

\* session-create calls of two server processes that run at the same time,
\* with control calls between them
CreateNext ==
    \/ \E p \in Admins : NoControlInFlight /\ CreateFind(p)
    \/ \E p \in Admins : CreateSave(p)
    \/ \E p \in OneAdmin : NoCreateInFlight /\ CtlFind(p)
    \/ \E p \in OneAdmin : CtlCount(p)
    \/ \E p \in OneAdmin : \E req \in CreateRequests : CtlSave(p, req)
    \/ \E p \in OneAdmin : \E ok \in BOOLEAN : CtlPublish(p, ok)
    \/ GatewayMessage
    \/ Tick

SpecCreate == Init /\ [][CreateNext]_vars

GatewayRequests ==
    {[action |-> a, index |-> NoIndex] : a \in {"START", "NEXT", "FINISH"}}

\* the gateway: joins, disconnects and the messages of the control calls
GatewayNext ==
    \/ \E p \in OneAdmin : ~session.exists /\ CreateSession(p)
    \/ \E p \in OneAdmin : CtlFind(p)
    \/ \E p \in OneAdmin : CtlCount(p)
    \/ \E p \in OneAdmin : \E req \in GatewayRequests : CtlSave(p, req)
    \/ \E p \in OneAdmin : CtlPublish(p, TRUE)
    \/ OtherTestPublishes
    \/ GatewayMessage
    \/ \E s \in Sockets : \E t \in TestIds : JoinTest(s, t)
    \/ \E s \in Sockets : Disconnect(s)

SpecGateway == Init /\ [][GatewayNext]_vars

\* the gateway with texts that are not JSON among the control messages
GarbageNext ==
    \/ \E p \in OneAdmin : ~session.exists /\ CreateSession(p)
    \/ \E p \in OneAdmin : CtlFind(p)
    \/ \E p \in OneAdmin : CtlCount(p)
    \/ \E p \in OneAdmin : \E req \in GatewayRequests : CtlSave(p, req)
    \/ \E p \in OneAdmin : CtlPublish(p, TRUE)
    \/ PublishGarbage
    \/ GatewayMessage
    \/ \E s \in Sockets : \E t \in TestIds : JoinTest(s, t)

SpecGarbage == Init /\ [][GarbageNext]_vars

PlayerRequests ==
    {[action |-> a, index |-> NoIndex] : a \in {"START", "NEXT", "PAUSE", "FINISH"}}

\* test player pages that load and join the room at any moment of a session
PlayerNext ==
    \/ \E p \in OneAdmin : ~session.exists /\ CreateSession(p)
    \/ \E p \in OneAdmin : CtlFind(p)
    \/ \E p \in OneAdmin : CtlCount(p)
    \/ \E p \in OneAdmin : \E req \in PlayerRequests : CtlSave(p, req)
    \/ \E p \in OneAdmin : CtlPublish(p, TRUE)
    \/ GatewayMessage
    \/ \E s \in Sockets : JoinTest(s, ThisTest)
    \/ \E s \in Sockets : PageLoad(s)

SpecPlayer == RaceInit /\ [][PlayerNext]_vars

\* compareAnswers on any two answer values
CompareInit ==
    /\ now = 0
    /\ testExists = TRUE
    /\ nQuestions = Len(<<Q1, Q2>>)
    /\ attempt = NewAttempt(<<Answer("q1", Str(<<"B">>)), Answer("q2", Null)>>)
    /\ CtlQuiet /\ RedisQuiet /\ GradeQuiet /\ ViolationQuiet /\ ParseQuiet
    /\ cmp \in {[NoComparison EXCEPT !.given = g, !.correct = c, !.type = t] :
                   g \in AnswerValues, c \in AnswerValues, t \in QuestionTypes}

CompareNext == CompareCall

SpecCompare == CompareInit /\ [][CompareNext]_vars

\* uploads through the queued extraction path
ParseNext ==
    \/ \E u \in Uploads : \E file \in BOOLEAN : ParsePost(u, file)
    \/ \E u \in Uploads : WorkerTake(u)
    \/ \E u \in Uploads : ExtractReturns(u)
    \/ \E u \in Uploads : ExtractThrows(u)
    \/ \E u \in Uploads : BackoffOver(u)
    \/ \E u \in Uploads : WaitUntilFinished(u)
    \/ \E u \in Uploads : WaitTimeout(u)
    \/ \E u \in Uploads : PollJob(u)
    \/ \E u \in Uploads : JobRemoved(u)

SpecParse == Init /\ [][ParseNext]_vars

(* ===================== session control: claims ======================== *)
\* this step is p's switch on a known action followed by session.save()
SaveStep(p) == ctl[p].pc = "counted" /\ ctl'[p].pc = "saved"
\* this step is p's switch on an unknown action
RejectStep(p) == ctl[p].pc = "counted" /\ ctl'[p].pc = "done"
\* this step is p's publish
PublishStep(p) == ctl[p].pc = "saved" /\ ctl'[p].pc = "done"
\* no other call wrote the session since p read it
ReadIsCurrent(p) ==
    ctl[p].loadedStatus = session.status /\ ctl[p].loadedIdx = session.idx
Navigation == {"NEXT", "PREV", "GOTO"}

\* C1: in a session that was STARTed, after a NEXT, PREV or GOTO call the
\* persisted currentQuestionIndex is in [0, totalQuestions), totalQuestions
\* being the count that call read.  Stated for a test that holds questions
\* (with none, no index is in range and START itself breaks the claim).
C1_IndexWithinTotal ==
    [][\A p \in Admins :
          (SaveStep(p) /\ ctl'[p].action \in Navigation /\ ctl[p].total >= 1
              /\ session.startedAt # NoDate)
          => (0 <= session'.idx /\ session'.idx < ctl[p].total)]_vars

\* the status changes of the state diagram
Diagram ==
    {<<"waiting", "active">>, <<"active", "paused">>, <<"paused", "active">>,
     <<"active", "finished">>, <<"paused", "finished">>, <<"finished", "waiting">>}

\* C6: every change of the session's status is a change of the state
\* diagram, or is made by START (which sets active from any status).
C6_StatusFollowsDiagram ==
    [][(session.exists /\ session'.status # session.status)
          => \/ <<session.status, session'.status>> \in Diagram
             \/ \E p \in Admins : SaveStep(p) /\ ctl'[p].action = "START"]_vars

\* C7: a control call with an unknown action is answered 400, leaves the
\* persisted session (status, currentQuestionIndex, startedAt, updatedAt) as
\* it is and publishes nothing; only the seven known actions reach the save
\* and the publish.
C7_UnknownActionRejected ==
    [][\A p \in Admins :
          /\ (ctl[p].pc = "counted" /\ ctl'[p].pc # "counted"
                  /\ ctl'[p].action \notin ValidActions)
              => /\ ctl'[p].pc = "done" /\ ctl'[p].code = 400
                 /\ session' = session
                 /\ channel' = channel
          /\ ctl'[p].pc = "saved" => ctl'[p].action \in ValidActions
          /\ (ctl[p].pc = "done" /\ ctl[p].code = 400 /\ channel' # channel)
              => ctl'[p] = ctl[p]]_vars

\* C7 witness: an unknown action was answered 400 at a time later than the
\* session's last update.
C7_Witness ==
    \E p \in Admins :
        /\ ctl[p].pc = "done" /\ ctl[p].code = 400 /\ ctl[p].action = "REWIND"
        /\ session.exists /\ session.updatedAt < now /\ channel = <<>>

\* C8: a control call answers 200 only from its publish, which follows its
\* save; the publish appends exactly one message, whose currentQuestionIndex
\* and status are those of the session object the call saved and returns,
\* with a known status and an index >= 0; the save stamped updatedAt and
\* stored that status and index (a path the call did not modify keeps what
\* another call wrote since this call's read).
C8_SuccessMeansSavedThenPublished ==
    [][\A p \in Admins :
          /\ (ctl'[p].pc = "done" /\ ctl'[p].code = 200 /\ ctl[p] # ctl'[p])
              => /\ PublishStep(p)
                 /\ channel' = Append(channel,
                        [testId |-> ThisTest, idx |-> ctl'[p].idx,
                         status |-> ctl'[p].status])
                 /\ ctl'[p].status \in Statuses /\ ctl'[p].idx >= 0
                 /\ session' = session
          /\ (ctl'[p].pc = "saved" /\ ctl[p] # ctl'[p])
              => /\ SaveStep(p)
                 /\ channel' = channel
                 /\ session'.updatedAt = now
                 /\ ReadIsCurrent(p)
                     => (session'.status = ctl'[p].status
                            /\ session'.idx = ctl'[p].idx)
          /\ (PublishStep(p) /\ ctl'[p].code # 200) => channel' = channel]_vars

\* C8 witness: NEXT at the last question was answered 200 and its message,
\* equal to the persisted state, is on the channel.
C8_Witness ==
    \E p \in Admins :
        /\ ctl[p].pc = "done" /\ ctl[p].code = 200 /\ ctl[p].action = "NEXT"
        /\ ctl[p].loadedIdx = ctl[p].total - 1 /\ ctl[p].idx = ctl[p].loadedIdx
        /\ channel = <<[testId |-> ThisTest, idx |-> session.idx,
                        status |-> session.status]>>
        /\ session.idx = ctl[p].idx

\* C9: START, whatever the status it finds, leaves the session object with
\* status active and currentQuestionIndex 0 and stores startedAt = the time
\* of the call; with no write by another call since its read, the stored
\* status and index are active and 0.
C9_StartRearms ==
    [][\A p \in Admins :
          (SaveStep(p) /\ ctl'[p].action = "START")
          => /\ ctl'[p].status = "active" /\ ctl'[p].idx = 0
             /\ session'.startedAt = now
             /\ ReadIsCurrent(p)
                 => (session'.status = "active" /\ session'.idx = 0)]_vars

\* C9 witness: START found a finished session at a later question and
\* re-armed it.
C9_Witness ==
    \E p \in Admins :
        /\ ctl[p].pc = "saved" /\ ctl[p].action = "START"
        /\ ctl[p].loadedStatus = "finished" /\ ctl[p].loadedIdx > 0
        /\ session.status = "active" /\ session.idx = 0
        /\ session.startedAt = now /\ now > 0

\* the session object after the actions of acts, applied in order by the
\* switch to a session of total questions
RECURSIVE Replay(_, _, _, _)
Replay(status, idx, acts, total) ==
    IF acts = <<>> THEN [status |-> status, idx |-> idx]
    ELSE LET sw == ControlSwitch(status, idx, Head(acts), NoIndex, total)
         IN Replay(sw.status, sw.idx, Tail(acts), total)

\* with 3 questions: START, NEXT x3 end at index 2; FINISH keeps index 2
ThreeQuestionScenario ==
    /\ Replay("waiting", 0, <<"START", "NEXT", "NEXT", "NEXT">>, 3)
          = [status |-> "active", idx |-> 2]
    /\ Replay("waiting", 0, <<"START", "NEXT", "NEXT", "NEXT", "FINISH">>, 3)
          = [status |-> "finished", idx |-> 2]

\* C10: NEXT adds exactly 1 to currentQuestionIndex when it is below
\* total - 1 and leaves it as it is otherwise; either way the call is not
\* rejected (it saves and goes on to publish).  With 3 questions, START and
\* three NEXT end at index 2, and FINISH then gives finished at index 2.
C10_NextClamps ==
    [][\A p \in Admins :
          /\ (SaveStep(p) /\ ctl'[p].action = "NEXT")
              => /\ ctl'[p].idx = IF ctl[p].idx < ctl[p].total - 1
                                  THEN ctl[p].idx + 1 ELSE ctl[p].idx
                 /\ ctl'[p].status = ctl[p].status
                 /\ ReadIsCurrent(p) => session'.idx = ctl'[p].idx
          /\ (RejectStep(p) /\ ctl'[p].code = 400) => ctl'[p].action # "NEXT"
          /\ ThreeQuestionScenario]_vars

\* C10 witness: with 3 questions, NEXT at index 2 was answered 200 and the
\* persisted index is still 2.
C10_Witness ==
    \E p \in Admins :
        /\ ctl[p].pc = "done" /\ ctl[p].code = 200 /\ ctl[p].action = "NEXT"
        /\ ctl[p].total = 3 /\ ctl[p].loadedIdx = 2 /\ ctl[p].idx = 2
        /\ session.idx = 2 /\ nQuestions = 3

(* ========================= grading: claims ============================ *)
\* C2: when gradeAttempt calls for one attempt run one after the other, a
\* call that finds the attempt graded returns without writing: from the
\* first save on, the persisted attempt (its score included) stays as that
\* save left it, and the attempt is saved once.
C2_SecondGradeWritesNothing ==
    [][/\ attempt.status = "graded"
          => attempt' = attempt /\ gradeWrites' = gradeWrites
       /\ \A w \in Workers :
             (grd[w].pc = "called" /\ grd'[w].pc # "called"
                 /\ attempt.status = "graded")
             => grd'[w].pc = "done" /\ ~grd'[w].wrote]_vars

\* C2 witness: after the attempt was graded and saved once, a later grading
\* job called gradeAttempt and returned at the guard without writing.
C2_Witness ==
    \E w \in Workers :
        /\ grd[w].pc = "done" /\ grd[w].via = "job" /\ grd[w].code = 200
        /\ ~grd[w].wrote
        /\ attempt.status = "graded" /\ gradeWrites = 1

\* C3: under every interleaving of gradeAttempt calls for one attempt, the
\* grading is applied (the attempt is saved) at most once.
C3_GradedAtMostOnce == gradeWrites <= 1

(* ======================== violations: claims ========================== *)
\* C4: when recordViolation calls for one attempt run one after the other
\* with the store reachable, the k-th call returns count k, and
\* shouldAutoSubmit is false for calls 1 to 4 and true from call 5 on: it
\* is (count >= MAX_VIOLATIONS).
C4_AutoSubmitAtFifth ==
    [][\A p \in Reports :
          (vio[p].pc = "read" /\ vio'[p].pc = "done")
          => /\ vio'[p].code = 200
             /\ vio'[p].count = recorded'
             /\ violations'.count = recorded'
             /\ recorded' \in 1 .. 4 => ~vio'[p].auto
             /\ recorded' >= 5 => vio'[p].auto
             /\ vio'[p].auto = (vio'[p].count >= MAX_VIOLATIONS)]_vars

\* C4 witness: the fifth call in a row has returned count 5 with
\* shouldAutoSubmit true.
C4_Witness ==
    \E p \in Reports :
        /\ vio[p].pc = "done" /\ vio[p].code = 200
        /\ vio[p].count = 5 /\ vio[p].auto
        /\ recorded = 5 /\ violations.count = 5

\* C5: when recordViolation calls for one attempt run at the same time,
\* once N calls have all returned the stored count is N and the stored
\* list has N entries.
C5_ConcurrentCallsAllCounted ==
    NoViolationInFlight
        => violations.count = recorded /\ Len(violations.list) = recorded

(* ================= session control: further claims ==================== *)
\* C11: GOTO(index) sets currentQuestionIndex to index exactly when index
\* is a number with 0 <= index < total; for any other index (negative,
\* total or more, missing or not a number) the index stays as it was; in
\* both cases the status is kept and the call is not rejected.
C11_GotoInRangeOnly ==
    [][\A p \in Admins :
          /\ (SaveStep(p) /\ ctl'[p].action = "GOTO")
              => LET i == ctl'[p].index
                     inRange == i.num /\ 0 <= i.val /\ i.val < ctl[p].total
                 IN /\ inRange => ctl'[p].idx = i.val
                    /\ ~inRange => ctl'[p].idx = ctl[p].idx
                    /\ ctl'[p].status = ctl[p].status
                    /\ ReadIsCurrent(p) => session'.idx = ctl'[p].idx
          /\ (RejectStep(p) /\ ctl'[p].code = 400) => ctl'[p].action # "GOTO"]_vars

\* C11 witness: GOTO with index = total was answered 200 and the persisted
\* index is the one the session had.
C11_Witness ==
    \E p \in Admins :
        /\ ctl[p].pc = "done" /\ ctl[p].code = 200 /\ ctl[p].action = "GOTO"
        /\ ctl[p].index.num /\ ctl[p].index.val = ctl[p].total
        /\ ctl[p].total >= 2 /\ ctl[p].loadedIdx = 1
        /\ ctl[p].idx = 1 /\ session.idx = 1

\* the (status, currentQuestionIndex) the switch gives when the action of
\* p's call is applied once more, with the same question count
Repeated(p) ==
    LET sw == ControlSwitch(ctl'[p].status, ctl'[p].idx, ctl'[p].action,
                            ctl'[p].index, ctl[p].total)
    IN <<sw.status, sw.idx>>
Once(p) == <<ctl'[p].status, ctl'[p].idx>>

\* C12: every valid control action is idempotent under repetition: applied
\* twice in a row it leaves the same (status, currentQuestionIndex) as
\* applied once.
C12_EveryActionIdempotent ==
    [][\A p \in Admins : SaveStep(p) => Repeated(p) = Once(p)]_vars

\* C12 as amended: START, GOTO, PAUSE, RESUME and FINISH are idempotent
\* under repetition; a repeated NEXT changes nothing exactly when the first
\* one left the index at total - 1 or beyond, a repeated PREV exactly when
\* the first one left it at 0.
C12_IdempotentExceptStepping ==
    [][\A p \in Admins :
          SaveStep(p)
          => /\ ctl'[p].action \in {"START", "GOTO", "PAUSE", "RESUME", "FINISH"}
                  => Repeated(p) = Once(p)
             /\ ctl'[p].action = "NEXT"
                  => (Repeated(p) = Once(p)) = (ctl'[p].idx >= ctl[p].total - 1)
             /\ ctl'[p].action = "PREV"
                  => (Repeated(p) = Once(p)) = (ctl'[p].idx = 0)]_vars

\* C12 witness: PREV was sent to a session at index 1, which it left at
\* index 0, where a repeated PREV changes nothing.
C12_Witness ==
    \E p \in Admins :
        /\ ctl[p].pc = "done" /\ ctl[p].code = 200 /\ ctl[p].action = "PREV"
        /\ ctl[p].loadedIdx = 1 /\ ctl[p].idx = 0 /\ session.idx = 0

\* C14: when the session save has succeeded, the call reports success with
\* the new session state whether or not the publish succeeds.
C14_PublishFailureNotFatal ==
    [][\A p \in Admins : PublishStep(p) => ctl'[p].code = 200]_vars

\* C16: a control call for a test with no session, and a session-create
\* call for a test that does not exist, are answered 404, create no session
\* and publish nothing.
C16_NotFound ==
    [][\A p \in Admins :
          /\ (ctl[p].pc \in {"idle", "done"} /\ ctl'[p] # ctl[p]
                  /\ ~session.exists)
              => /\ ctl'[p].pc = "done" /\ ctl'[p].code = 404
                 /\ session' = session /\ channel' = channel
          /\ (crt'[p] # crt[p] /\ crt'[p].pc = "done" /\ ~testExists)
              => /\ crt'[p].code = 404
                 /\ session' = session /\ channel' = channel]_vars

\* C16 witness: for a test that does not exist, a create call and a
\* control call have both been answered 404 and there is no session.
C16_Witness ==
    \E p \in Admins :
        /\ ctl[p].pc = "done" /\ ctl[p].code = 404
        /\ crt[p].pc = "done" /\ crt[p].code = 404
        /\ ~testExists /\ ~session.exists /\ channel = <<>>

\* p's call has saved the session
Wrote(p) ==
    ctl[p].pc = "saved" \/ (ctl[p].pc = "done" /\ ctl[p].code \in {200, 500})
\* the (status, currentQuestionIndex) after the action of call c is applied
\* to st as a whole
Applied(st, c) ==
    LET sw == ControlSwitch(st[1], st[2], c.action, c.index, c.total)
    IN <<sw.status, sw.idx>>

\* C13: the read-modify-write of a control call is atomic: when two calls
\* that read the same session have both saved, the persisted (status,
\* currentQuestionIndex) is what the two actions give applied one after the
\* other in some order.
C13_ConcurrentCallsSerialize ==
    \A p, q \in Admins :
        (p # q /\ Wrote(p) /\ Wrote(q)
            /\ ctl[p].loadedStatus = ctl[q].loadedStatus
            /\ ctl[p].loadedIdx = ctl[q].loadedIdx)
        => LET base == <<ctl[p].loadedStatus, ctl[p].loadedIdx>>
           IN <<session.status, session.idx>>
                 \in {Applied(Applied(base, ctl[p]), ctl[q]),
                      Applied(Applied(base, ctl[q]), ctl[p])}

ReceiveStep == channel # <<>> /\ channel' = Tail(channel)

\* C17: for every message received on the channel for a test, the gateway
\* emits a state-change carrying the message's currentQuestionIndex and
\* status to every socket joined to that test's room, and to no socket that
\* has not joined it; sockets get state-changes in no other way.
C17_StateChangeToRoomOnly ==
    [][/\ ReceiveStep
          => LET msg == Head(channel) IN
             \A s \in Sockets :
                 /\ s \in room[msg.testId]
                     => client'[s] = [idx |-> msg.idx, status |-> msg.status]
                 /\ s \notin room[msg.testId] => client'[s] = client[s]
       /\ client' # client => ReceiveStep]_vars

\* C17 witness: s1, in this test's room, holds this test's state (active at
\* index 1); s2, in the other test's room only, holds the other test's.
C17_Witness ==
    /\ "s1" \in room[ThisTest] /\ "s2" \notin room[ThisTest] /\ "s2" \in room["U"]
    /\ session.status = "active" /\ session.idx = 1
    /\ client["s1"] = [idx |-> 1, status |-> "active"]
    /\ client["s2"] = [idx |-> 0, status |-> "finished"]

\* C18: on every join of a socket to a test's room, every socket of that
\* room receives a room-count equal to the number of sockets in the room
\* right after the join, the joiner included; no other socket receives one.
C18_RoomCountAfterJoin ==
    [][/\ \A t \in TestIds : \A s \in Sockets :
             (s \notin room[t] /\ s \in room'[t])
             => \A r \in Sockets :
                    roomCount'[r] = IF r \in room'[t]
                                    THEN Cardinality(room[t]) + 1
                                    ELSE roomCount[r]
       /\ roomCount' # roomCount
             => \E t \in TestIds :
                    /\ room'[t] # {}
                    /\ \A r \in Sockets :
                           roomCount'[r] = IF r \in room'[t]
                                           THEN Cardinality(room'[t])
                                           ELSE roomCount[r]]_vars

\* C18 witness: both sockets are in this test's room and both hold the
\* room-count 2.
C18_Witness ==
    /\ room[ThisTest] = {"s1", "s2"} /\ room["U"] = {}
    /\ roomCount["s1"] = 2 /\ roomCount["s2"] = 2

(* ====================== compareAnswers: claims ======================== *)
\* the rearrangements of 1 .. n
Rearrangements(n) ==
    {f \in [1 .. n -> 1 .. n] : \A i \in 1 .. n : \E j \in 1 .. n : f[j] = i}
PermutationsUpTo == [n \in 0 .. MaxArray + 1 |-> Rearrangements(n)]
Permuted(value, f) == Arr([i \in 1 .. Len(value.a) |-> value.a[f[i]]])
\* how often the trimmed, lower-cased string x occurs among the elements
Occurrences(value, x) ==
    Cardinality({i \in 1 .. Len(value.a) : TrimLower(value.a[i]) = x})
SameMultiset(g, c) ==
    /\ Len(g.a) = Len(c.a)
    /\ \A i \in 1 .. Len(g.a) :
          Occurrences(g, TrimLower(g.a[i])) = Occurrences(c, TrimLower(g.a[i]))

Unanswered(value) == value \in {Null, Str(<<>>), Arr(<<>>)}

\* C20: compareAnswers is false whenever the given answer is "", null,
\* undefined or [], whatever the correct answer, also when that is empty.
C20_UnansweredNeverMatches ==
    (cmp.called /\ Unanswered(cmp.given)) => ~cmp.result

\* one operand is a number and the other a string
NumberAndString(g, c) ==
    \/ g.t = "num" /\ c.t = "str"
    \/ g.t = "str" /\ c.t = "num"
\* Number(g) === Number(c) of the operands as they were passed
NumericallyEqual(g, c) ==
    LET a == IF g.t = "str" THEN StringToNumber(g.s) ELSE [ok |-> TRUE, n |-> g.n]
        b == IF c.t = "str" THEN StringToNumber(c.s) ELSE [ok |-> TRUE, n |-> c.n]
    IN a.ok /\ b.ok /\ a.n = b.n

\* C21 as stated: when one operand is a number and the other a string, the
\* result is the numeric equality of the two after coercion, whatever the
\* string is.
C21_CoercionOfAnyString ==
    (cmp.called /\ NumberAndString(cmp.given, cmp.correct))
    => cmp.result = NumericallyEqual(cmp.given, cmp.correct)

\* C21: when one operand is a number and the other a string that is not
\* empty, the result is the numeric equality of the two after coercion, in
\* either operand position; with the empty string the result is false.
C21_CoercionOfNonEmptyString ==
    (cmp.called /\ NumberAndString(cmp.given, cmp.correct))
    => cmp.result = (/\ Str(<<>>) \notin {cmp.given, cmp.correct}
                     /\ NumericallyEqual(cmp.given, cmp.correct))

\* C21 witness: "42" given for the correct answer 42 is true.
C21_Witness ==
    /\ cmp.called /\ cmp.result
    /\ cmp.given = Str(<<"4", "2">>)
    /\ cmp.correct = Num(42)

(* ========================= grading: claims =========================== *)
\* the award the claim gives an answer, question being its entry of the key
Award(ans, question) ==
    IF Unanswered(ans.givenAnswer) THEN 0
    ELSE IF CompareAnswers(ans.givenAnswer, question.correctAnswer, question.type)
         THEN question.marks
    ELSE 0 - question.negativeMarks
RECURSIVE SumOfAwards(_)
SumOfAwards(answers) ==
    IF answers = <<>> THEN 0
    ELSE Head(answers).awardedMarks + SumOfAwards(Tail(answers))
\* [{mcq, given "B", correct "b", marks 2},
\*  {integer, given null, correct 5, negativeMarks 1}]
ScenarioAnswers == <<Answer("q1", Str(<<"B">>)), Answer("q2", Null)>>
ScenarioKey ==
    <<[id |-> "q1", type |-> "mcq", correctAnswer |-> Str(<<"b">>), marks |-> 2,
       negativeMarks |-> 0],
      [id |-> "q2", type |-> "integer", correctAnswer |-> Num(5), marks |-> 1,
       negativeMarks |-> 1]>>

\* C22: the save of gradeAttempt stores, for every answer, +marks when it
\* was given and matches the correct answer of the answer key, -negativeMarks
\* when it was given and does not match, and 0 when it was not given (null,
\* undefined, "" or []); the stored score is the sum of the stored awards;
\* the attempt ["B" for b worth 2, null for 5 with penalty 1] gets score 2.
C22_SignedSumOfAwards ==
    [][\A w \in Workers :
          (grd[w].pc = "keyed" /\ grd'[w].pc = "done")
          => /\ Len(attempt'.answers) = Len(grd[w].loaded)
             /\ \A i \in 1 .. Len(grd[w].loaded) :
                   \E k \in 1 .. Len(grd[w].key) :
                      /\ grd[w].key[k].id = grd[w].loaded[i].questionId
                      /\ attempt'.answers[i].awardedMarks
                            = Award(grd[w].loaded[i], grd[w].key[k])
             /\ attempt'.score = SumOfAwards(attempt'.answers)
             /\ (grd[w].loaded = ScenarioAnswers /\ grd[w].key = ScenarioKey)
                   => attempt'.score = 2]_vars

\* C22 witness: the attempt ["B", null] is graded with awards 2 and 0 and
\* score 2.
C22_Witness ==
    /\ attempt.status = "graded"
    /\ attempt.answers[1].givenAnswer = Str(<<"B">>)
    /\ attempt.answers[2].givenAnswer = Null
    /\ attempt.answers[1].awardedMarks = 2
    /\ attempt.answers[2].awardedMarks = 0
    /\ attempt.score = 2

\* key is made of the Question documents docs: one entry per document with
\* its id, type and correctAnswer, its marks when it has them, and its
\* negativeMarks, 0 when it has none
KeyOfDocuments(key, docs) ==
    /\ Len(key) = Len(docs)
    /\ \A i \in 1 .. Len(docs) :
          /\ key[i].id = docs[i].id
          /\ key[i].type = docs[i].type
          /\ key[i].correctAnswer = docs[i].correctAnswer
          /\ docs[i].marks # <<>> => key[i].marks = docs[i].marks[1]
          /\ key[i].negativeMarks
                = (IF docs[i].negativeMarks = <<>> THEN 0 ELSE docs[i].negativeMarks[1])

\* C23: getAnswerKey does not fail because of the cache.  A failed connect
\* and a rejected or empty cache read go on to the document store; the key
\* read there is made of the store's questions (negativeMarks 0 when
\* missing); and it is returned unchanged whether or not the cache write
\* happens.
C23_KeyFromStoreWhenCacheFails ==
    [][\A w \in Workers :
          /\ (grd[w].pc = "loaded" /\ grd'[w].pc # "loaded")
             => /\ grd'[w].pc \in {"connected", "miss"}
                /\ (redisStatus # "ready" /\ ~storeUp) => grd'[w].pc = "miss"
          /\ (grd[w].pc = "connected" /\ grd'[w].pc # "connected")
             => /\ grd'[w].pc \in {"keyed", "miss"}
                /\ (redisStatus = "end" \/ keyCache = NoKey) => grd'[w].pc = "miss"
          /\ (grd[w].pc = "miss" /\ grd'[w].pc # "miss")
             => /\ grd'[w].pc = "fetched"
                /\ KeyOfDocuments(grd'[w].key, questions)
          /\ (grd[w].pc = "fetched" /\ grd'[w].pc # "fetched")
             => /\ grd'[w].pc = "keyed"
                /\ grd'[w].key = grd[w].key
          /\ grd[w].pc \in {"loaded", "connected", "miss", "fetched"}
             => grd'[w].code = 0]_vars

\* C23 witness: with the cache backend away and nothing cached, a call
\* whose cache read failed holds the key made of the store's questions.
C23_Witness ==
    \E w \in Workers :
        /\ grd[w].pc = "keyed" /\ grd[w].cache = "failed"
        /\ ~storeUp /\ redisStatus # "ready" /\ keyCache = NoKey
        /\ KeyOfDocuments(grd[w].key, questions)
        /\ grd[w].key[1].negativeMarks = 0

\* C24: whatever edits, gradings and expiries came before, the answer key
\* getAnswerKey obtains, from the cache or from the document store, is the
\* key made of the questions that are in the document store at that moment.
C24_KeyIsTheStoresKey ==
    [][\A w \in Workers :
          (grd[w].pc \in {"connected", "miss"} /\ grd'[w].pc \in {"keyed", "fetched"})
          => KeyOfDocuments(grd'[w].key, questions)]_vars

(* ==================== violations and outages: claims ================== *)
\* C25: no recordViolation call raises an error, and a call that ends while
\* the store is unreachable returns count 0, no violations and
\* shouldAutoSubmit false and has written nothing, wherever in the call the
\* store was lost.
C25_SoftFailWhenUnreachable ==
    [][\A p \in Reports :
          (vio[p].pc # "done" /\ vio'[p].pc = "done")
          => /\ vio'[p].code = 200
             /\ ~storeUp
                => /\ vio'[p].count = 0 /\ vio'[p].list = <<>> /\ ~vio'[p].auto
                   /\ violations' = violations]_vars

\* the index NEXT, PREV and GOTO leave, whatever the status is
Stepped(idx, action, index, total) ==
    CASE action = "NEXT" -> IF idx < total - 1 THEN idx + 1 ELSE idx
      [] action = "PREV" -> IF idx > 0 THEN idx - 1 ELSE 0
      [] OTHER -> IF index.num /\ index.val >= 0 /\ index.val < total
                  THEN index.val ELSE idx

\* C29: the save of NEXT, PREV and GOTO leaves status and startedAt as they
\* are and moves the index in every status, waiting and finished included;
\* the save of PAUSE, RESUME and FINISH leaves currentQuestionIndex and
\* startedAt as they are; no save changes which test the session belongs
\* to or the other test's session.
C29_ControlFrame ==
    [][\A p \in OneAdmin :
          (ctl[p].pc = "counted" /\ ctl'[p].pc = "saved")
          => /\ ctl'[p].action \in {"NEXT", "PREV", "GOTO"}
                => /\ session'.status = session.status
                   /\ session'.startedAt = session.startedAt
                   /\ session'.idx = Stepped(session.idx, ctl'[p].action,
                                             ctl'[p].index, ctl[p].total)
             /\ ctl'[p].action \in {"PAUSE", "RESUME", "FINISH"}
                => /\ session'.idx = session.idx
                   /\ session'.startedAt = session.startedAt
             /\ session'.exists = session.exists
             /\ session'.docs = session.docs
             /\ otherSession' = otherSession]_vars

\* C29 witness: on a finished session started earlier, with the other
\* test's session active, NEXT has moved the index from 0 to 1 and left
\* status and startedAt.
C29_Witness ==
    \E p \in OneAdmin :
        /\ ctl[p].pc = "saved" /\ ctl[p].action = "NEXT"
        /\ ctl[p].loadedStatus = "finished" /\ ctl[p].loadedIdx = 0
        /\ session.status = "finished" /\ session.idx = 1
        /\ session.startedAt = 0 /\ now = 1
        /\ otherSession.status = "active"

\* C28: once every control call has completed and every published message
\* is delivered, each socket of the test's room that has received a
\* state-change holds the persisted status and currentQuestionIndex of the
\* session.
C28_ClientsConverge ==
    (/\ \A p \in Admins : ctl[p].pc \in {"idle", "done"}
     /\ channel = <<>>)
    => \A s \in room[ThisTest] :
          client[s] # NoState
          => client[s] = [idx |-> session.idx, status |-> session.status]

\* C27: a submit answers success only after gradeAttempt has run: whenever
\* a submit call has answered 200, the attempt is graded, with its score
\* and gradedAt set; and a submit made on an attempt that is graded
\* already is refused (400) and leaves the attempt as it is.
C27_SubmitGradesBeforeSuccess ==
    [][\A w \in Workers :
          /\ (grd'[w].via = "submit" /\ grd'[w].pc = "done" /\ grd'[w].code = 200)
             => /\ attempt'.status = "graded"
                /\ attempt'.gradedAt # NoDate
                /\ attempt'.score = SumOfAwards(attempt'.answers)
          /\ (grd[w].pc \in {"idle", "done"} /\ grd'[w] # grd[w]
                 /\ grd'[w].via = "submit" /\ attempt.status = "graded")
             => /\ grd'[w].pc = "done" /\ grd'[w].code = 400
                /\ attempt' = attempt]_vars

\* C27 witness: a submit that graded the attempt itself has answered 200.
C27_Witness ==
    \E w \in Workers :
        /\ grd[w].via = "submit" /\ grd[w].pc = "done" /\ grd[w].code = 200
        /\ grd[w].wrote
        /\ attempt.status = "graded" /\ attempt.gradedAt # NoDate

C26_QueuedOnlyWhenUnfinished ==
    [][\A u \in Uploads :
          /\ (post[u].pc = "waiting" /\ post'[u].pc = "done")
             => /\ (post'[u].status = "queued") = ~Finished(job[u])
                /\ (post'[u].status = "queued") = (post'[u].code = 202)
          /\ (poll'[u] # poll[u] /\ Finished(job[u]))
             => poll'[u].status = job[u].state]_vars

\* C31: every recordViolation call that writes stores the record with the
\* expiry of that call's ttlSeconds, whatever expiry it had before; after
\* an expiry or a resetViolations nothing is stored, and a call that reads
\* nothing stored returns count 1 with shouldAutoSubmit false.
C31_ExpiryResetEachCall ==
    [][/\ \A p \in Reports :
             (vio[p].pc = "read" /\ vio'[p].pc = "done" /\ vio'[p].code = 200)
             => /\ violations'.exists /\ violations'.ttl = vio[p].ttl
                /\ vio[p].before.count = 0
                   => /\ vio'[p].count = 1 /\ ~vio'[p].auto
                      /\ violations'.count = 1
       /\ \A p \in Reports :
             (vio[p].pc = "getting" /\ vio'[p].pc = "read" /\ ~violations.exists)
             => vio'[p].before.count = 0
       /\ (violations.exists /\ ~violations'.exists) => violations' = NoViolations]_vars

\* C31 witness: after calls that had brought the count to 2 with expiry
\* 600 and a reset or expiry, a call with ttlSeconds 1200 has returned
\* count 1 and the record is stored with expiry 1200.
C31_Witness ==
    \E p \in Reports :
        /\ vio[p].pc = "done" /\ vio[p].code = 200 /\ vio[p].ttl = 1200
        /\ vio[p].count = 1 /\ ~vio[p].auto
        /\ recorded = 3
        /\ violations.exists /\ violations.count = 1 /\ violations.ttl = 1200

\* C32: after the save of gradeAttempt every entry of attempt.answers has
\* isMarkedCorrect and awardedMarks, and attempt.score is the sum of
\* awardedMarks over all entries, also when an entry's questionId is not in
\* the answer key.
C32_EveryAnswerMarked ==
    [][\A w \in Workers :
          (grd[w].pc = "keyed" /\ grd'[w].pc = "done")
          => /\ \A i \in 1 .. Len(attempt'.answers) : attempt'.answers[i].attached
             /\ attempt'.score = SumOfAwards(attempt'.answers)]_vars

\* a string that is empty once trimmed, without being the empty string
WhitespaceOnly(value) ==
    value.t = "str" /\ value.s # <<>> /\ Normalise(value) = Str(<<>>)

\* C33: compareAnswers is false for a given answer of white space only,
\* whatever the correct answer, the number 0 included.
C33_WhitespaceNeverMatches ==
    (cmp.called /\ WhitespaceOnly(cmp.given)) => ~cmp.result

\* C34: an extraction job is executed at most twice; when its second
\* execution throws it is failed and is not executed again; a poll of a
\* failed job answers 500 'failed', a poll of a completed job answers 200
\* 'completed', and a poll of a jobId the queue does not hold answers 404.
C34_AtMostTwoExecutions ==
    [][\A u \in Uploads :
          /\ (job[u].state # "active" /\ job'[u].state = "active")
             => job[u].attemptsMade < 2
          /\ (job[u].state = "active" /\ job[u].attemptsMade = 1
                /\ job'[u].state \notin {"active", "completed"})
             => job'[u].state = "failed"
          /\ job[u].state = "failed" => job'[u].state \in {"failed", "removed"}
          /\ poll'[u] # poll[u]
             => poll'[u] =
                  CASE job[u].state = "failed" -> [code |-> 500, status |-> "failed"]
                    [] job[u].state = "completed" -> [code |-> 200, status |-> "completed"]
                    [] job[u].state \in {"none", "removed"} ->
                          [code |-> 404, status |-> "error"]
                    [] OTHER -> poll'[u]]_vars

\* C34 witness: a job has thrown twice, is failed, and a poll has
\* answered 500 'failed'.
C34_Witness ==
    \E u \in Uploads :
        /\ job[u].state = "failed" /\ job[u].attemptsMade = 2
        /\ poll[u] = [code |-> 500, status |-> "failed"]

\* the attempt as its job leaves it when it runs alone: graded, with the
\* awards and the score of its answers under the test's answer key
GradedAlone(before, after) ==
    /\ after.status = "graded"
    /\ after.answers = [i \in 1 .. Len(before.answers) |->
                           GradeAnswer(before.answers[i], AnswerKey(questions))]
    /\ after.score = TotalScore(before.answers, AnswerKey(questions))

\* C35: with grading jobs that name distinct attempts running at the same
\* time in any interleaving, the save of a job leaves its attempt graded as
\* if the job had run alone and leaves the other attempt as it was, and no
\* other step of a job changes an attempt.
C35_JobsAreIsolated ==
    [][/\ \A w \in Workers :
             (grd[w].pc = "keyed" /\ grd'[w].pc = "done")
             => IF grd[w].attemptId = ThisAttempt
                THEN GradedAlone(attempt, attempt') /\ otherAttempt' = otherAttempt
                ELSE GradedAlone(otherAttempt, otherAttempt') /\ attempt' = attempt
       /\ (\A w \in Workers : ~(grd[w].pc = "keyed" /\ grd'[w].pc = "done"))
             => (attempt' = attempt /\ otherAttempt' = otherAttempt)]_vars

\* C35 witness: two jobs that ran at the same time have graded the two
\* attempts, with different scores.
C35_Witness ==
    /\ attempt.status = "graded" /\ otherAttempt.status = "graded"
    /\ attempt.score = 2 /\ otherAttempt.score = 1
    /\ grd["w1"].wrote /\ grd["w2"].wrote
    /\ grd["w1"].attemptId # grd["w2"].attemptId

\* C36: when a state-change is delivered to the room, every page in the
\* room that has loaded, whatever the session's status was when it loaded,
\* shows the message's question index, and submits when the message's
\* status is finished.
C36_PageAdoptsEveryState ==
    [][(channel # <<>> /\ channel' = Tail(channel))
          => LET msg == Head(channel) IN
             \A s \in room[msg.testId] :
                page[s].loaded
                => /\ page'[s].currentQIndex = msg.idx
                   /\ msg.status = "finished" => page'[s].isSubmitting]_vars

\* C37: every step that changes the persisted status or question index of
\* an existing session, the reset by session-create included, is made by a
\* call that goes on to publish the new state to the test's room.
C37_EveryChangeBroadcast ==
    [][(/\ session.exists /\ session'.exists
        /\ <<session'.status, session'.idx>> # <<session.status, session.idx>>)
          => \E p \in Admins :
                /\ ctl'[p].pc = "saved"
                /\ ControlMessage(ctl'[p])
                      = [testId |-> ThisTest, idx |-> session'.idx,
                         status |-> session'.status]]_vars

\* C38: from the moment the attempt is graded, no step of a gradeAttempt
\* call, a grading job or a submit changes its status, its score, the
\* awardedMarks of its answers or its gradedAt.
C38_GradedIsAbsorbing ==
    [][attempt.status = "graded"
          => /\ attempt'.status = "graded"
             /\ attempt'.score = attempt.score
             /\ attempt'.gradedAt = attempt.gradedAt
             /\ Len(attempt'.answers) = Len(attempt.answers)
             /\ \A i \in 1 .. Len(attempt.answers) :
                   attempt'.answers[i].awardedMarks
                      = attempt.answers[i].awardedMarks]_vars

\* C39: the gateway takes a message that is not JSON off the channel
\* without emitting anything to any socket, and goes on: every well-formed
\* message it takes, also after a dropped one, is re-emitted to the sockets
\* of its room.
C39_MalformedIsDropped ==
    [][(channel # <<>> /\ channel' = Tail(channel))
          => LET msg == Head(channel) IN
             IF msg = Malformed
             THEN client' = client /\ page' = page /\ roomCount' = roomCount
             ELSE \A s \in room[msg.testId] :
                     client'[s] = [idx |-> msg.idx, status |-> msg.status]]_vars

\* C39 witness: after a message that is not JSON was dropped, a START was
\* re-emitted to a socket of the room.
C39_Witness ==
    /\ sinceDrop = 1
    /\ \E s \in room[ThisTest] : client[s] = [idx |-> 0, status |-> "active"]
    /\ \A s \in Sockets : client[s].status \in {"none", "active"}

\* C40: once the client's retries were exhausted (the store is marked
\* unavailable) and the store is reachable again, then, unless the store is
\* lost again, a later recordViolation call gets to read the store.
C40_AvailabilityRecovers ==
    (storeUp /\ redisAvailable = "false")
        ~> (~storeUp \/ \E p \in Reports : vio[p].pc \in {"getting", "read"})

====
